---- MODULE Spec2Model ----
(***************************************************************************)
(* Model of llvm/CodeGen/GlobalISel/RegisterBankInfo.cpp                   *)
(* (src/unnamed/part_002): the register bank registry, the register-class  *)
(* coverage builder and the default instruction-mapping inference; and of  *)
(* src/lib/Object/ObjectFile.cpp: getSymbolValue and createObjectFile.     *)
(*                                                                         *)
(* Eight specifications share the module.  SpecReg runs the registry         *)
(* (createRegisterBank, addRegBankCoverage) from freshly constructed       *)
(* banks; SpecCov runs the coverage builder over every bounded             *)
(* register-class catalog on banks the target has created, and SpecOneFair *)
(* runs it on one bank under fairness of the loop; SpecMap applies         *)
(* getInstrMappingImpl to every bounded instruction over a registry whose  *)
(* coverage is finished; SpecQuery issues every query on an instruction in *)
(* any order; SpecVerify applies the verify passes to bounded mappings;    *)
(* SpecOrder seeds two banks with two classes in opposite orders;          *)
(* SpecObject applies the ObjectFile entry points to bounded symbols,      *)
(* buffers and files.                                                      *)
(* Assertions are enabled: a failed assert or llvm_unreachable ends the    *)
(* call with its message.                                                  *)
(***************************************************************************)
EXTENDS Integers, Naturals, Sequences, FiniteSets, TLC

\* ------------------------------------------------------------------------
\* Bounds of the model.
\* ------------------------------------------------------------------------
NumRegClasses == 3
NumRegBanks == 2
NumSubRegIndices == 2
MaxEdges == 2
MaxRCSize == 2
MaxOperands == 3
MaxBreakDown == 2
MaxSymbolValue == 2

\* ------------------------------------------------------------------------
\* Program constants.
\* ------------------------------------------------------------------------
\* UINT_MAX and UINT_MAX - 1 are written as the 32-bit two's complement
\* values with the same bits, -1 and -2.
BitsPerByte == 8
InvalidID == -1
DefaultMappingID == -1
InvalidMappingID == -2

RegClassIDs == 0 .. (NumRegClasses - 1)
RegBankIDs == 0 .. (NumRegBanks - 1)
SubRegIndices == 1 .. NumSubRegIndices
BankNames == {"GPR", "FPR"}
NullName == "nullptr"

\* ------------------------------------------------------------------------
\* Bit masks (uint32_t chunks of the register-class catalog).
\* ------------------------------------------------------------------------
RECURSIVE Pow2(_)
Pow2(n) == IF n = 0 THEN 1 ELSE 2 * Pow2(n - 1)

\* The packed mask with exactly the bits of S set (what TableGen emits).
RECURSIVE MaskOf(_)
MaskOf(S) ==
  IF S = {} THEN 0
  ELSE LET e == CHOOSE x \in S : TRUE IN Pow2(e) + MaskOf(S \ {e})

\* countTrailingZeros of a non-zero mask.
RECURSIVE countTrailingZeros(_)
countTrailingZeros(Mask) ==
  IF Mask % 2 = 1 THEN 0 ELSE 1 + countTrailingZeros(Mask \div 2)

\* ------------------------------------------------------------------------
\* BitVector: a sequence of booleans, bit i at position i + 1.
\* ------------------------------------------------------------------------
BVResize(bv, n) == [i \in 1 .. n |-> IF i <= Len(bv) THEN bv[i] ELSE FALSE]
BVTest(bv, i) == bv[i + 1]
BVSet(bv, i) == [bv EXCEPT ![i + 1] = TRUE]
BVBits(bv) == {i \in 0 .. (Len(bv) - 1) : bv[i + 1]}

\* ------------------------------------------------------------------------
\* The register-class catalog (TargetRegisterInfo).
\* ------------------------------------------------------------------------
\* All subsets of U with at most k elements.
RECURSIVE SubsetsUpTo(_, _)
SubsetsUpTo(U, k) ==
  IF k = 0 THEN {{}}
  ELSE LET P == SubsetsUpTo(U, k - 1)
       IN  P \cup {p \cup {e} : p \in P, e \in U}

\* <<"sub", c, s>>: s is in the subclass mask of c.
\* <<"super", x, i, y>>: y is in the mask the super-register-class iterator
\* of x yields for sub-register index i.
EdgeUniverse ==
  {<<"sub", c, s>> : c \in RegClassIDs, s \in RegClassIDs}
    \cup {<<"super", x, i, y>> : x \in RegClassIDs, i \in SubRegIndices,
                                 y \in RegClassIDs}

MakeTRI(E, sz) ==
  [NumRegClasses |-> NumRegClasses,
   Size |-> sz,
   SubClassMask |->
     [c \in RegClassIDs |->
        MaskOf({s \in RegClassIDs : <<"sub", c, s>> \in E})],
   SuperRCMasks |->
     [x \in RegClassIDs |->
        [i \in SubRegIndices |->
           MaskOf({y \in RegClassIDs : <<"super", x, i, y>> \in E})]]]

\* The sizes in bytes of the classes; the classes are numbered by
\* non-decreasing size, the relations between them are left free.
RCSizes ==
  {sz \in [RegClassIDs -> 1 .. MaxRCSize] :
     \A c \in RegClassIDs : c = 0 \/ sz[c - 1] <= sz[c]}

Catalogs ==
  {MakeTRI(E, sz) : E \in SubsetsUpTo(EdgeUniverse, MaxEdges), sz \in RCSizes}

\* The catalog with no subclass and no sub-register relation, in which
\* class c is c + 1 bytes wide, up to the widest class.
FlatCatalog ==
  MakeTRI({}, [c \in RegClassIDs |->
                 IF c + 1 <= MaxRCSize THEN c + 1 ELSE MaxRCSize])

\* ------------------------------------------------------------------------
\* State.
\* ------------------------------------------------------------------------
VARIABLES
  TRI,        \* the register-class catalog of the target
  RegBanks,   \* RegisterBankInfo::RegBanks, indexed by bank ID
  pc,         \* "idle"; inside addRegBankCoverage's do-while "loop" before
              \* the pop of line 111 and "examine" after it
  WorkList,   \* addRegBankCoverage's WorkList (a stack, top at the end)
  frame,      \* the addRegBankCoverage call in progress: its arguments,
              \* the class popped last (CurRC, while it is examined) and
              \* the bank as it was on entry; NoFrame outside a call
  last,       \* the last completed call: its name, and for
              \* addRegBankCoverage whether the same pair had completed before
  seeded,     \* the (ID, RCId) pairs of the completed addRegBankCoverage calls
  fatal,      \* the assertion that aborted the program, "" while it runs
  MI,         \* the machine instruction under query
  Arg,        \* the mapping handed to a verify pass
  Ret         \* the result of the last query

vars ==
  <<TRI, RegBanks, pc, WorkList, frame, last, seeded, fatal, MI, Arg, Ret>>

mapVars == <<MI, Arg, Ret>>

\* RegisterBank::RegisterBank()
NewRegisterBank ==
  [ID |-> InvalidID, Name |-> NullName, Size |-> 0,
   ContainedRegClasses |-> <<>>]

NoFrame == [ID |-> InvalidID]
NoCall == [op |-> "none", again |-> FALSE]
NoMI == [Opcode |-> "none", Operands |-> <<>>]
NoArg == [kind |-> "none"]
NoRet == [kind |-> "none"]

\* RegisterBank::isValid, as addRegBankCoverage uses it: the bank is no
\* longer under construction once it has coverage.
isValid(RB) == BVBits(RB.ContainedRegClasses) # {}

\* RegisterBank::covers
covers(RB, RCId) == BVTest(RB.ContainedRegClasses, RCId)

\* RegisterBankInfo::getRegBank(ID): the index must be in the registry.
InRegistry(ID) == ID \in RegBankIDs

\* ------------------------------------------------------------------------
\* RegisterBankInfo::createRegisterBank
\* ------------------------------------------------------------------------
\* The assertion of lines 82-83 dropped: any bank may be created again.
CreatedOnlyOnce_Unchecked(RB) == TRUE

\* Lines 82-83: "A register bank should be created only once".
CreatedOnlyOnce(RB) == RB.ID = InvalidID

createRegisterBank(ID, Name) ==
  /\ pc = "idle"
  /\ fatal = ""
  /\ IF ~InRegistry(ID)
       THEN /\ fatal' = "Accessing an unknown register bank"
            /\ UNCHANGED RegBanks
     ELSE IF ~CreatedOnlyOnce(RegBanks[ID])
       THEN /\ fatal' = "A register bank should be created only once"
            /\ UNCHANGED RegBanks
     ELSE /\ RegBanks' = [RegBanks EXCEPT ![ID].ID = ID, ![ID].Name = Name]
          /\ UNCHANGED fatal
  /\ UNCHANGED <<TRI, pc, WorkList, frame>>
  /\ UNCHANGED mapVars

\* ------------------------------------------------------------------------
\* RegisterBankInfo::addRegBankCoverage
\* ------------------------------------------------------------------------
\* Lines 128-151: the walk over one chunk of the subclass mask.  Every set
\* bit that is not covered yet is pushed and marked.  The state is the pair
\* <<Covered, WorkList>>.
\* The walk with "Idx += Offset" left out: after a skipped run of zeros the
\* cursor names the wrong class.
RECURSIVE ScanSubClassMask_StaleIdx(_, _, _, _)
ScanSubClassMask_StaleIdx(Mask, Idx, Covered, WL) ==
  IF Mask = 0 THEN <<Covered, WL>>
  ELSE LET Offset == countTrailingZeros(Mask)
           SubRCId == Idx + Offset
           Rest == (Mask \div Pow2(Offset)) \div 2
       IN  IF ~BVTest(Covered, SubRCId)
             THEN ScanSubClassMask_StaleIdx(Rest, Idx + 1,
                                            BVSet(Covered, SubRCId),
                                            Append(WL, SubRCId))
             ELSE ScanSubClassMask_StaleIdx(Rest, Idx + 1, Covered, WL)

\* The walk without the test of line 131: a subclass is pushed whether or
\* not it is covered.
RECURSIVE ScanSubClassMask_NoTest(_, _, _, _)
ScanSubClassMask_NoTest(Mask, Idx, Covered, WL) ==
  IF Mask = 0 THEN <<Covered, WL>>
  ELSE LET Offset == countTrailingZeros(Mask)
           SubRCId == Idx + Offset
           Rest == (Mask \div Pow2(Offset)) \div 2
       IN  ScanSubClassMask_NoTest(Rest, Idx + Offset + 1,
                                   BVSet(Covered, SubRCId),
                                   Append(WL, SubRCId))

RECURSIVE ScanSubClassMask(_, _, _, _)
ScanSubClassMask(Mask, Idx, Covered, WL) ==
  IF Mask = 0 THEN <<Covered, WL>>
  ELSE LET Offset == countTrailingZeros(Mask)
           SubRCId == Idx + Offset
           Rest == (Mask \div Pow2(Offset)) \div 2
       IN  IF ~BVTest(Covered, SubRCId)
             THEN ScanSubClassMask(Rest, Idx + Offset + 1,
                                   BVSet(Covered, SubRCId),
                                   Append(WL, SubRCId))
             ELSE ScanSubClassMask(Rest, Idx + Offset + 1, Covered, WL)

\* Lines 179-203: does the super-register-class mask name RCId?
RECURSIVE MaskNamesRC(_, _, _)
MaskNamesRC(Mask, Idx, RCId) ==
  IF Mask = 0 THEN FALSE
  ELSE LET Offset == countTrailingZeros(Mask)
           SuperRCId == Idx + Offset
       IN  IF SuperRCId = RCId THEN TRUE
           ELSE MaskNamesRC((Mask \div Pow2(Offset)) \div 2,
                            Idx + Offset + 1, RCId)

\* Lines 172-205: the walk of SuperRegClassIterator over SubRCId, stopped by
\* the first mask that names RCId.
\* The walk stopped after the first sub-register index.
SuperRCNames_FirstIdx(tri, SubRCId, Idx, RCId) ==
  MaskNamesRC(tri.SuperRCMasks[SubRCId][1], 0, RCId)

RECURSIVE SuperRCNames(_, _, _, _)
SuperRCNames(tri, SubRCId, Idx, RCId) ==
  IF Idx > NumSubRegIndices THEN FALSE
  ELSE IF MaskNamesRC(tri.SuperRCMasks[SubRCId][Idx], 0, RCId) THEN TRUE
  ELSE SuperRCNames(tri, SubRCId, Idx + 1, RCId)

\* Lines 167-206: every class that is not covered yet and reaches RCId
\* through a sub-register index is pushed and marked.
\* The scan without the test of line 168: a class that is covered already
\* is pushed again.
RECURSIVE ScanSubRegClasses_NoTest(_, _, _, _, _)
ScanSubRegClasses_NoTest(tri, SubRCId, RCId, Covered, WL) ==
  IF SubRCId >= tri.NumRegClasses THEN <<Covered, WL>>
  ELSE IF SuperRCNames(tri, SubRCId, 1, RCId)
    THEN ScanSubRegClasses_NoTest(tri, SubRCId + 1, RCId,
                                  BVSet(Covered, SubRCId),
                                  Append(WL, SubRCId))
  ELSE ScanSubRegClasses_NoTest(tri, SubRCId + 1, RCId, Covered, WL)

RECURSIVE ScanSubRegClasses(_, _, _, _, _)
ScanSubRegClasses(tri, SubRCId, RCId, Covered, WL) ==
  IF SubRCId >= tri.NumRegClasses THEN <<Covered, WL>>
  ELSE IF BVTest(Covered, SubRCId)
    THEN ScanSubRegClasses(tri, SubRCId + 1, RCId, Covered, WL)
  ELSE IF SuperRCNames(tri, SubRCId, 1, RCId)
    THEN ScanSubRegClasses(tri, SubRCId + 1, RCId,
                           BVSet(Covered, SubRCId), Append(WL, SubRCId))
  ELSE ScanSubRegClasses(tri, SubRCId + 1, RCId, Covered, WL)

Max(a, b) == IF a >= b THEN a ELSE b

\* Line 119 without std::max: the size of the class examined last.
ExamineSize_Last(tri, MaxSize, RCId) == tri.Size[RCId] * BitsPerByte

\* Line 119 adding up the widths instead of keeping the largest.
ExamineSize_Sum(tri, MaxSize, RCId) == MaxSize + tri.Size[RCId] * BitsPerByte

\* Line 119: the new MaxSize after examining RCId.
ExamineSize(tri, MaxSize, RCId) == Max(MaxSize, tri.Size[RCId] * BitsPerByte)

\* Lines 113-208 without line 119: the class is examined, Size is not
\* raised.
ExamineClass_NoSize(tri, RB, RCId, WL) ==
  LET S1 == ScanSubClassMask(tri.SubClassMask[RCId], 0,
                             RB.ContainedRegClasses, WL)
      S2 == ScanSubRegClasses(tri, 0, RCId, S1[1], S1[2])
  IN  <<[RB EXCEPT !.ContainedRegClasses = S2[1]], S2[2]>>

\* Lines 113-208: the body of the do-while after the pop of line 111, for
\* the popped class RCId, on bank RB with the rest WL of the worklist.  The
\* result is <<RB', WorkList'>>.
ExamineClass(tri, RB, RCId, WL) ==
  LET S1 == ScanSubClassMask(tri.SubClassMask[RCId], 0,
                             RB.ContainedRegClasses, WL)
      S2 == ScanSubRegClasses(tri, 0, RCId, S1[1], S1[2])
  IN  <<[RB EXCEPT !.Size = ExamineSize(tri, RB.Size, RCId),
                   !.ContainedRegClasses = S2[1]],
        S2[2]>>

\* Lines 111-208: one iteration of the do-while, on bank RB with worklist WL:
\* the pop of line 111, then the body.  The result is <<RB', WorkList'>>.
ExamineStep(tri, RB, WL) ==
  ExamineClass(tri, RB, WL[Len(WL)], SubSeq(WL, 1, Len(WL) - 1))

\* Lines 95-101 with the test of line 98 inverted.
AlreadyCovered_Inverted(RB, RCId) == isValid(RB) /\ ~covers(RB, RCId)

\* Lines 95-101: nothing to do when the bank is valid and covers RCId.
AlreadyCovered(RB, RCId) == isValid(RB) /\ covers(RB, RCId)

\* Lines 96-97 and 106-107 with the resize of line 97 done on every call and
\* clearing the set: the loop starts from the seed alone.
SeedCovered_Fresh(RB, RCId, NbOfRegClasses) ==
  BVSet(BVResize(<<>>, NbOfRegClasses), RCId)

\* Lines 96-97 and 106-107: the covered set with which the loop starts.
SeedCovered(RB, RCId, NbOfRegClasses) ==
  BVSet(IF ~isValid(RB)
          THEN BVResize(RB.ContainedRegClasses, NbOfRegClasses)
          ELSE RB.ContainedRegClasses,
        RCId)

\* Lines 88-107: the entry of addRegBankCoverage, up to the first iteration.
addRegBankCoverage(ID, RCId) ==
  /\ pc = "idle"
  /\ fatal = ""
  /\ IF ~InRegistry(ID)
       THEN /\ fatal' = "Accessing an unknown register bank"
            /\ UNCHANGED <<RegBanks, pc, WorkList, frame>>
     ELSE IF AlreadyCovered(RegBanks[ID], RCId)
       THEN UNCHANGED <<RegBanks, pc, WorkList, frame, fatal>>
     ELSE /\ RegBanks' =
                [RegBanks EXCEPT ![ID].ContainedRegClasses =
                   SeedCovered(RegBanks[ID], RCId, TRI.NumRegClasses)]
          /\ WorkList' = <<RCId>>
          /\ pc' = "loop"
          /\ frame' = [ID |-> ID, RCId |-> RCId, entry |-> RegBanks[ID],
                        CurRC |-> InvalidID]
          /\ UNCHANGED fatal
  /\ UNCHANGED TRI
  /\ UNCHANGED mapVars

\* Line 111: the top of the worklist is popped; it is the class the rest of
\* the iteration examines.  Size is not raised yet.
PopWorkList ==
  /\ pc = "loop"
  /\ frame' = [frame EXCEPT !.CurRC = WorkList[Len(WorkList)]]
  /\ WorkList' = SubSeq(WorkList, 1, Len(WorkList) - 1)
  /\ pc' = "examine"
  /\ UNCHANGED <<TRI, RegBanks, fatal>>
  /\ UNCHANGED mapVars

\* Lines 113-209: the rest of the iteration (Size is raised, the classes
\* reached from the popped one are pushed and marked) and the loop test; the
\* call returns when the worklist is empty.
Examine ==
  /\ pc = "examine"
  /\ LET R == ExamineClass(TRI, RegBanks[frame.ID], frame.CurRC, WorkList)
     IN  /\ RegBanks' = [RegBanks EXCEPT ![frame.ID] = R[1]]
         /\ WorkList' = R[2]
         /\ IF R[2] = <<>>
              THEN /\ pc' = "idle"
                   /\ frame' = NoFrame
              ELSE /\ pc' = "loop"
                   /\ frame' = [frame EXCEPT !.CurRC = InvalidID]
  /\ UNCHANGED <<TRI, fatal>>
  /\ UNCHANGED mapVars

\* ------------------------------------------------------------------------
\* Specifications of the registry and of the coverage builder.
\* ------------------------------------------------------------------------
histVars == <<last, seeded>>

InitIdle ==
  /\ pc = "idle"
  /\ WorkList = <<>>
  /\ frame = NoFrame
  /\ last = NoCall
  /\ seeded = {}
  /\ fatal = ""
  /\ MI = NoMI
  /\ Arg = NoArg
  /\ Ret = NoRet

\* SpecReg keeps a log of the calls that completed: the name of the last
\* one, whether it repeated a completed addRegBankCoverage call, and the
\* pairs of the completed addRegBankCoverage calls.
LogCreate ==
  IF fatal' # "" THEN UNCHANGED histVars
  ELSE /\ last' = [op |-> "createRegisterBank", again |-> FALSE]
       /\ UNCHANGED seeded

LogCoverage(ID, RCId) ==
  IF fatal' # "" \/ pc' # "idle" THEN UNCHANGED histVars
  ELSE /\ last' = [op |-> "addRegBankCoverage",
                   again |-> <<ID, RCId>> \in seeded]
       /\ seeded' = seeded \cup {<<ID, RCId>>}

\* The registry as RegisterBankInfo's constructor leaves it, over the
\* catalog that has no subclass and no sub-register relation.  The target
\* creates a bank before it adds coverage to it.
InitReg ==
  /\ TRI = FlatCatalog
  /\ RegBanks = [b \in RegBankIDs |-> NewRegisterBank]
  /\ InitIdle

Create ==
  \E ID \in 0 .. NumRegBanks, Name \in BankNames :
    createRegisterBank(ID, Name) /\ LogCreate

AddCoverageReg ==
  \E ID \in 0 .. NumRegBanks, RCId \in RegClassIDs :
    /\ InRegistry(ID) => RegBanks[ID].ID # InvalidID
    /\ addRegBankCoverage(ID, RCId)
    /\ LogCoverage(ID, RCId)

PopReg == PopWorkList /\ UNCHANGED histVars

ExamineReg == Examine /\ LogCoverage(frame.ID, frame.RCId)

NextReg == Create \/ AddCoverageReg \/ PopReg \/ ExamineReg

SpecReg == InitReg /\ [][NextReg]_vars

\* The registry once the target has created every bank (bank b is created
\* with ID b), over every bounded catalog.
CreatedBank(b) ==
  [NewRegisterBank EXCEPT !.ID = b,
                          !.Name = IF b % 2 = 0 THEN "GPR" ELSE "FPR"]

InitCov ==
  /\ TRI \in Catalogs
  /\ RegBanks = [b \in RegBankIDs |-> CreatedBank(b)]
  /\ InitIdle

AddCoverage ==
  \E ID \in RegBankIDs, RCId \in RegClassIDs :
    addRegBankCoverage(ID, RCId) /\ UNCHANGED histVars

PopCov == PopWorkList /\ UNCHANGED histVars

ExamineCov == Examine /\ UNCHANGED histVars

NextCov == AddCoverage \/ PopCov \/ ExamineCov

SpecCov == InitCov /\ [][NextCov]_vars

\* The coverage builder run on bank 0 alone.  The do-while loop is never
\* suspended: an iteration that can run does.
AddCoverageOne ==
  \E RCId \in RegClassIDs : addRegBankCoverage(0, RCId) /\ UNCHANGED histVars

NextOne == AddCoverageOne \/ PopCov \/ ExamineCov

SpecOneFair ==
  InitCov /\ [][NextOne]_vars /\ WF_vars(PopCov) /\ WF_vars(ExamineCov)

\* Two seed classes handed to the first two banks in opposite orders: bank 0
\* is seeded with S1 then S2, bank 1 with S2 then S1.  seeded records, as
\* <<bank, k>>, that the k-th call on the bank has returned.
OrderedBanks == {0, 1}

SeedOf(b, k) ==
  IF (b = 0) = (k = 1) THEN Arg.S1 ELSE Arg.S2

CallsDone(b) == Cardinality({k \in {1, 2} : <<b, k>> \in seeded})

LogOrder(b) ==
  /\ IF pc' # "idle" THEN UNCHANGED seeded
     ELSE seeded' = seeded \cup {<<b, CallsDone(b) + 1>>}
  /\ UNCHANGED last

InitOrder ==
  /\ TRI \in Catalogs
  /\ RegBanks = [b \in RegBankIDs |-> CreatedBank(b)]
  /\ pc = "idle"
  /\ WorkList = <<>>
  /\ frame = NoFrame
  /\ last = NoCall
  /\ seeded = {}
  /\ fatal = ""
  /\ MI = NoMI
  /\ Arg \in [kind : {"seeds"}, S1 : RegClassIDs, S2 : RegClassIDs]
  /\ Ret = NoRet

SeedInOrder ==
  \E b \in OrderedBanks :
    /\ CallsDone(b) < 2
    /\ addRegBankCoverage(b, SeedOf(b, CallsDone(b) + 1))
    /\ LogOrder(b)

PopOrder == PopWorkList /\ UNCHANGED histVars

ExamineOrder == Examine /\ LogOrder(frame.ID)

NextOrder == SeedInOrder \/ PopOrder \/ ExamineOrder

SpecOrder == InitOrder /\ [][NextOrder]_vars

\* ------------------------------------------------------------------------
\* The registry with its coverage finished, as the mapping queries see it.
\* ------------------------------------------------------------------------
\* Lines 110-209: the do-while loop run until the worklist is empty.
RECURSIVE RunLoop(_, _, _)
RunLoop(tri, RB, WL) ==
  IF WL = <<>> THEN RB
  ELSE LET R == ExamineStep(tri, RB, WL) IN RunLoop(tri, R[1], R[2])

\* Lines 88-210: a whole addRegBankCoverage call on bank RB.
CoverageOf(tri, RB, RCId) ==
  IF AlreadyCovered(RB, RCId) THEN RB
  ELSE RunLoop(tri,
               [RB EXCEPT !.ContainedRegClasses =
                  SeedCovered(RB, RCId, tri.NumRegClasses)],
               <<RCId>>)

\* RegisterBankInfo::getRegBankFromRegClass, which the target supplies: the
\* target of the model puts class c in bank c, and the classes beyond the
\* last bank in the last bank.
getRegBankFromRegClass(RCId) ==
  IF RCId < NumRegBanks THEN RCId ELSE NumRegBanks - 1

\* The target's initialization: every bank is created, then covers the
\* classes the target puts in it.
RECURSIVE InitializedBank(_, _, _)
InitializedBank(tri, b, RCId) ==
  IF RCId = 0 THEN CreatedBank(b)
  ELSE LET RB == InitializedBank(tri, b, RCId - 1)
       IN  IF getRegBankFromRegClass(RCId - 1) = b
             THEN CoverageOf(tri, RB, RCId - 1)
             ELSE RB

InitializedRegBanks(tri) ==
  [b \in RegBankIDs |-> InitializedBank(tri, b, tri.NumRegClasses)]

\* ------------------------------------------------------------------------
\* Machine instructions, operands and registers.
\* ------------------------------------------------------------------------
NoClass == -1
NullBank == -1

\* Reg = 0.
NoRegister == [kind |-> "none"]

\* A physical register, with TRI.getMinimalPhysRegClass(Reg).
PhysReg(RCId) == [kind |-> "phys", MinimalPhysRegClass |-> RCId]

\* A virtual register, with MRI.getRegClassOrRegBank(Reg) and
\* MRI.getSize(Reg) (0 when the register is not generic).
VirtReg(RegClassOrRegBank, Size) ==
  [kind |-> "virt", RegClassOrRegBank |-> RegClassOrRegBank, Size |-> Size]

\* A machine operand, with MI.getRegClassConstraint at its index.
Operand(isReg, Reg, RC) ==
  [isReg |-> isReg, Reg |-> Reg, RegClassConstraint |-> RC]

\* The sizes in bits of the generic virtual registers: the narrowest and
\* the widest class.
GenericSizes == {BitsPerByte, MaxRCSize * BitsPerByte}

\* A class that the target puts in another bank than b.
ClassOfOtherBank(b) == (b + 1) % NumRegBanks

\* The operands of the model.  A register always fits the bank it is
\* assigned to and the bank of the class its operand is constrained to.
\* The virtual registers of a class are of the first or of the last class;
\* a generic register with no bank whose operand is constrained to a class
\* is of the narrowest size.
Operands(tri, banks) ==
  {Operand(FALSE, NoRegister, NoClass), Operand(TRUE, NoRegister, NoClass)}
    \cup {Operand(TRUE, PhysReg(c), NoClass) : c \in RegClassIDs}
    \cup {Operand(TRUE, VirtReg(<<"class", c>>, 0), NoClass) :
            c \in {0, tri.NumRegClasses - 1}}
    \cup UNION {{Operand(TRUE, VirtReg(<<"bank", b>>, sz), rc) :
                    sz \in {x \in GenericSizes : x <= banks[b].Size},
                    rc \in {NoClass, ClassOfOtherBank(b)}} :
                 b \in {x \in RegBankIDs : isValid(banks[x])}}
    \cup {Operand(TRUE, VirtReg(<<"null">>, sz), NoClass) :
            sz \in GenericSizes}
    \cup {Operand(TRUE, VirtReg(<<"null">>, BitsPerByte), rc) :
            rc \in RegClassIDs}

Opcodes == {"COPY", "PHI", "G_ADD", "ADD"}

\* MI is an instruction of 1 to MaxOperands operands.
IsMachineInstr(mi, tri, banks) ==
  \E o \in Opcodes, n \in 1 .. MaxOperands :
    \E ops \in [1 .. n -> Operands(tri, banks)] :
      mi = [Opcode |-> o, Operands |-> ops]

isCopy(mi) == mi.Opcode = "COPY"
isPHI(mi) == mi.Opcode = "PHI"

\* ------------------------------------------------------------------------
\* Mappings.
\* ------------------------------------------------------------------------
\* APInt Mask(MaskSize, 0); Mask.flipAllBits()
AllOnes(MaskSize) == [BitWidth |-> MaskSize, Value |-> Pow2(MaskSize) - 1]

PartialMapping(Mask, RegBank) == [Mask |-> Mask, RegBank |-> RegBank]

EmptyValueMapping == [BreakDown |-> <<>>]

\* InstructionMapping(ID, Cost, NumOperands)
InstructionMapping(ID, Cost, NumOperands) ==
  [ID |-> ID, Cost |-> Cost, NumOperands |-> NumOperands,
   OperandsMapping |-> [i \in 1 .. NumOperands |-> EmptyValueMapping]]

\* InstructionMapping()
InvalidMapping == InstructionMapping(InvalidMappingID, 0, 0)

\* The result of an assertion that failed.
Aborted(msg) == [abort |-> msg]
HasAborted(m) == "abort" \in DOMAIN m

\* InstructionMapping::setOperandMapping; operand OpIdx is at OpIdx + 1.
setOperandMapping(banks, Mapping, OpIdx, MaskSize, RegBank) ==
  IF ~(MaskSize <= banks[RegBank].Size)
    THEN Aborted("Register bank is too small")
    ELSE [Mapping EXCEPT !.OperandsMapping[OpIdx + 1].BreakDown =
            Append(@, PartialMapping(AllOnes(MaskSize), RegBank))]

\* ------------------------------------------------------------------------
\* getSizeInBits, RegisterBankInfo::getRegBank(Reg, MRI, TRI)
\* ------------------------------------------------------------------------
\* getSizeInBits returning the size of the class in bytes.
getSizeInBits_Bytes(tri, Reg) ==
  IF Reg.kind = "phys"
    THEN tri.Size[Reg.MinimalPhysRegClass]
  ELSE IF Reg.Size # 0 THEN Reg.Size
  ELSE tri.Size[Reg.RegClassOrRegBank[2]]

getSizeInBits(tri, Reg) ==
  IF Reg.kind = "phys"
    THEN tri.Size[Reg.MinimalPhysRegClass] * BitsPerByte
  ELSE IF Reg.Size # 0 THEN Reg.Size
  ELSE tri.Size[Reg.RegClassOrRegBank[2]] * BitsPerByte

getRegBank(Reg) ==
  IF Reg.kind = "phys"
    THEN getRegBankFromRegClass(Reg.MinimalPhysRegClass)
  ELSE IF Reg.RegClassOrRegBank[1] = "bank" THEN Reg.RegClassOrRegBank[2]
  ELSE IF Reg.RegClassOrRegBank[1] = "class"
    THEN getRegBankFromRegClass(Reg.RegClassOrRegBank[2])
  ELSE NullBank

\* ------------------------------------------------------------------------
\* RegisterBankInfo::getInstrMappingImpl
\* ------------------------------------------------------------------------
\* Line 245 with the PHI test negated.
isCopyLike_NotPHI(mi) == isCopy(mi) \/ ~isPHI(mi)

\* Line 245.
isCopyLike(mi) == isCopy(mi) \/ isPHI(mi)

\* Lines 257-266 with the two sources swapped: the register-class constraint
\* is consulted first, the register only when there is no constraint.
CurRegBankOf_ConstraintFirst(MO) ==
  IF MO.RegClassConstraint # NoClass
    THEN getRegBankFromRegClass(MO.RegClassConstraint)
    ELSE getRegBank(MO.Reg)

\* Lines 257-266: the bank of the register of operand MO, from the register
\* or else from the register-class constraint of the operand.
CurRegBankOf(MO) ==
  LET CurRegBank == getRegBank(MO.Reg)
  IN  IF CurRegBank # NullBank THEN CurRegBank
      ELSE IF MO.RegClassConstraint # NoClass
        THEN getRegBankFromRegClass(MO.RegClassConstraint)
      ELSE NullBank

\* The loop of lines 250-283 with lines 280-281 guarded by "no bank yet":
\* the bank and the size of the first resolved operand are the ones kept.
RECURSIVE ScanOperands_KeepFirst(_, _, _, _, _)
ScanOperands_KeepFirst(tri, banks, mi, OpIdx, st) ==
  IF OpIdx = Len(mi.Operands) THEN [st EXCEPT !.exit = "end"]
  ELSE
    LET MO == mi.Operands[OpIdx + 1]
    IN  IF ~MO.isReg THEN ScanOperands_KeepFirst(tri, banks, mi, OpIdx + 1, st)
        ELSE IF MO.Reg = NoRegister
          THEN ScanOperands_KeepFirst(tri, banks, mi, OpIdx + 1, st)
        ELSE
          LET CurRegBank == CurRegBankOf(MO)
          IN  IF CurRegBank = NullBank
                THEN IF ~isCopyLike(mi)
                       THEN [st EXCEPT !.CompleteMapping = FALSE,
                                       !.exit = "return"]
                     ELSE IF st.RegBank # NullBank
                       THEN [st EXCEPT !.CompleteMapping = FALSE,
                                       !.exit = "break"]
                     ELSE ScanOperands_KeepFirst(
                            tri, banks, mi, OpIdx + 1,
                            [st EXCEPT !.CompleteMapping = FALSE])
              ELSE
                LET RegSize == getSizeInBits(tri, MO.Reg)
                    M == setOperandMapping(banks, st.Mapping, OpIdx, RegSize,
                                           CurRegBank)
                    First == st.RegBank = NullBank
                IN  IF HasAborted(M)
                      THEN [st EXCEPT !.Mapping = M, !.exit = "abort"]
                      ELSE ScanOperands_KeepFirst(
                             tri, banks, mi, OpIdx + 1,
                             [st EXCEPT !.Mapping = M,
                                        !.RegBank =
                                          IF First THEN CurRegBank ELSE @,
                                        !.RegSize =
                                          IF First THEN RegSize ELSE @])

\* The loop of lines 250-283 without the break of lines 276-277: the scan
\* goes on to the last operand of a copy-like instruction.
RECURSIVE ScanOperands_NoBreak(_, _, _, _, _)
ScanOperands_NoBreak(tri, banks, mi, OpIdx, st) ==
  IF OpIdx = Len(mi.Operands) THEN [st EXCEPT !.exit = "end"]
  ELSE
    LET MO == mi.Operands[OpIdx + 1]
    IN  IF ~MO.isReg THEN ScanOperands_NoBreak(tri, banks, mi, OpIdx + 1, st)
        ELSE IF MO.Reg = NoRegister
          THEN ScanOperands_NoBreak(tri, banks, mi, OpIdx + 1, st)
        ELSE
          LET CurRegBank == CurRegBankOf(MO)
          IN  IF CurRegBank = NullBank
                THEN IF ~isCopyLike(mi)
                       THEN [st EXCEPT !.CompleteMapping = FALSE,
                                       !.exit = "return"]
                     ELSE ScanOperands_NoBreak(
                            tri, banks, mi, OpIdx + 1,
                            [st EXCEPT !.CompleteMapping = FALSE])
              ELSE
                LET RegSize == getSizeInBits(tri, MO.Reg)
                    M == setOperandMapping(banks, st.Mapping, OpIdx, RegSize,
                                           CurRegBank)
                IN  IF HasAborted(M)
                      THEN [st EXCEPT !.Mapping = M, !.exit = "abort"]
                      ELSE ScanOperands_NoBreak(
                             tri, banks, mi, OpIdx + 1,
                             [st EXCEPT !.Mapping = M,
                                        !.RegBank = CurRegBank,
                                        !.RegSize = RegSize])

\* Lines 250-283: the loop over the operands, from OpIdx on.  st holds
\* Mapping, CompleteMapping, RegBank and RegSize, and in exit how the loop
\* was left: "end", "break", "return" (line 272) or "abort".
RECURSIVE ScanOperands(_, _, _, _, _)
ScanOperands(tri, banks, mi, OpIdx, st) ==
  IF OpIdx = Len(mi.Operands) THEN [st EXCEPT !.exit = "end"]
  ELSE
    LET MO == mi.Operands[OpIdx + 1]
    IN  IF ~MO.isReg THEN ScanOperands(tri, banks, mi, OpIdx + 1, st)
        ELSE IF MO.Reg = NoRegister
          THEN ScanOperands(tri, banks, mi, OpIdx + 1, st)
        ELSE
          LET CurRegBank == CurRegBankOf(MO)
          IN  IF CurRegBank = NullBank
                THEN IF ~isCopyLike(mi)
                       THEN [st EXCEPT !.CompleteMapping = FALSE,
                                       !.exit = "return"]
                     ELSE IF st.RegBank # NullBank
                       THEN [st EXCEPT !.CompleteMapping = FALSE,
                                       !.exit = "break"]
                     ELSE ScanOperands(tri, banks, mi, OpIdx + 1,
                                       [st EXCEPT !.CompleteMapping = FALSE])
              ELSE
                LET RegSize == getSizeInBits(tri, MO.Reg)
                    M == setOperandMapping(banks, st.Mapping, OpIdx, RegSize,
                                           CurRegBank)
                IN  IF HasAborted(M)
                      THEN [st EXCEPT !.Mapping = M, !.exit = "abort"]
                      ELSE ScanOperands(tri, banks, mi, OpIdx + 1,
                                        [st EXCEPT !.Mapping = M,
                                                   !.RegBank = CurRegBank,
                                                   !.RegSize = RegSize])

\* Lines 297-303: RegBank is given to every operand from OpIdx on that has
\* no mapping yet.
\* The propagation with the test of lines 298-301 inverted: the operands
\* without a mapping are the ones skipped.
RECURSIVE Propagate_Inverted(_, _, _, _, _)
Propagate_Inverted(banks, Mapping, OpIdx, RegSize, RegBank) ==
  IF HasAborted(Mapping) THEN Mapping
  ELSE IF OpIdx = Mapping.NumOperands THEN Mapping
  ELSE IF Mapping.OperandsMapping[OpIdx + 1].BreakDown = <<>>
    THEN Propagate_Inverted(banks, Mapping, OpIdx + 1, RegSize, RegBank)
  ELSE Propagate_Inverted(banks,
                          setOperandMapping(banks, Mapping, OpIdx, RegSize,
                                            RegBank),
                          OpIdx + 1, RegSize, RegBank)

\* The propagation without the test of lines 298-301: RegBank is given to
\* every operand.
RECURSIVE Propagate_NoTest(_, _, _, _, _)
Propagate_NoTest(banks, Mapping, OpIdx, RegSize, RegBank) ==
  IF HasAborted(Mapping) THEN Mapping
  ELSE IF OpIdx = Mapping.NumOperands THEN Mapping
  ELSE Propagate_NoTest(banks,
                        setOperandMapping(banks, Mapping, OpIdx, RegSize,
                                          RegBank),
                        OpIdx + 1, RegSize, RegBank)

RECURSIVE Propagate(_, _, _, _, _)
Propagate(banks, Mapping, OpIdx, RegSize, RegBank) ==
  IF HasAborted(Mapping) THEN Mapping
  ELSE IF OpIdx = Mapping.NumOperands THEN Mapping
  ELSE IF Mapping.OperandsMapping[OpIdx + 1].BreakDown # <<>>
    THEN Propagate(banks, Mapping, OpIdx + 1, RegSize, RegBank)
  ELSE Propagate(banks,
                 setOperandMapping(banks, Mapping, OpIdx, RegSize, RegBank),
                 OpIdx + 1, RegSize, RegBank)

\* getInstrMappingImpl without the test of lines 291-292: the mapping built
\* so far is returned when no operand gave a bank.
getInstrMappingImpl_NoBankTest(tri, banks, mi) ==
  LET st == ScanOperands(tri, banks, mi, 0,
              [Mapping |-> InstructionMapping(DefaultMappingID, 1,
                                              Len(mi.Operands)),
               CompleteMapping |-> TRUE,
               RegBank |-> NullBank,
               RegSize |-> 0,
               exit |-> "run"])
  IN  IF st.exit = "abort" THEN st.Mapping
      ELSE IF st.exit = "return" THEN InvalidMapping
      ELSE IF st.CompleteMapping THEN st.Mapping
      ELSE IF st.RegBank = NullBank THEN st.Mapping
      ELSE Propagate(banks, st.Mapping, 0, st.RegSize, st.RegBank)

\* Lines 229-305.
getInstrMappingImpl(tri, banks, mi) ==
  LET st == ScanOperands(tri, banks, mi, 0,
              [Mapping |-> InstructionMapping(DefaultMappingID, 1,
                                              Len(mi.Operands)),
               CompleteMapping |-> TRUE,
               RegBank |-> NullBank,
               RegSize |-> 0,
               exit |-> "run"])
  IN  IF st.exit = "abort" THEN st.Mapping
      ELSE IF st.exit = "return" THEN InvalidMapping
      ELSE IF st.CompleteMapping THEN st.Mapping
      ELSE IF st.RegBank = NullBank THEN InvalidMapping
      ELSE Propagate(banks, st.Mapping, 0, st.RegSize, st.RegBank)

\* ------------------------------------------------------------------------
\* The verify passes.  Each returns the message of the assertion that
\* fails, or Passes.
\* ------------------------------------------------------------------------
Passes == ""

\* The number of bits up to the highest set bit of v.
RECURSIVE ActiveBits(_)
ActiveBits(v) == IF v = 0 THEN 0 ELSE 1 + ActiveBits(v \div 2)

\* APInt::countLeadingZeros
countLeadingZeros(Mask) == Mask.BitWidth - ActiveBits(Mask.Value)

\* APInt::operator|= on the values of two masks of the same width.
RECURSIVE BitOr(_, _)
BitOr(a, b) ==
  IF a = 0 THEN b
  ELSE IF b = 0 THEN a
  ELSE (IF a % 2 = 1 \/ b % 2 = 1 THEN 1 ELSE 0)
         + 2 * BitOr(a \div 2, b \div 2)

\* Lines 353-358 without the trailing zeros: the width is counted from
\* bit 0.
ActiveWidthOf_FromBitZero(Mask) ==
  IF Mask.Value # 0
    THEN Mask.BitWidth - countLeadingZeros(Mask)
    ELSE 0

\* Lines 353-358.
ActiveWidthOf(Mask) ==
  IF Mask.Value # 0
    THEN Mask.BitWidth - countLeadingZeros(Mask)
           - countTrailingZeros(Mask.Value)
    ELSE 0

\* PartialMapping::verify
PartialMappingVerify(banks, PartMap) ==
  IF PartMap.RegBank = NullBank THEN "Register bank not set"
  ELSE
    LET ActiveWidth == ActiveWidthOf(PartMap.Mask)
    IN  IF ~(ActiveWidth <= PartMap.Mask.BitWidth)
          THEN "Wrong computation of ActiveWidth, overflow?"
        ELSE IF ~(banks[PartMap.RegBank].Size >= ActiveWidth)
          THEN "Register bank too small for Mask"
        ELSE Passes

\* The loop of lines 381-390 with one more assertion: a mask that shares a
\* bit with the masks seen so far is refused.
RECURSIVE VerifyBreakDown_NoOverlap(_, _, _, _, _)
VerifyBreakDown_NoOverlap(banks, BreakDown, k, ValueBitWidth, r) ==
  IF k > Len(BreakDown) THEN r
  ELSE
    LET PartMap == BreakDown[k]
    IN  IF PartMap.Mask.BitWidth # ValueBitWidth
          THEN [r EXCEPT !.msg = "Value does not have the same size accross the partial mappings"]
        ELSE IF BitOr(r.ValueMask, PartMap.Mask.Value)
                  # r.ValueMask + PartMap.Mask.Value
          THEN [r EXCEPT !.msg = "Value is mapped twice"]
        ELSE
          LET v == PartialMappingVerify(banks, PartMap)
          IN  IF v # Passes THEN [r EXCEPT !.msg = v]
              ELSE VerifyBreakDown_NoOverlap(
                     banks, BreakDown, k + 1, ValueBitWidth,
                     [r EXCEPT !.ValueMask = BitOr(@, PartMap.Mask.Value)])

\* Lines 381-390: the loop over the partial mappings from position k on.
\* r holds the ValueMask so far and the message of a failed assertion.
RECURSIVE VerifyBreakDown(_, _, _, _, _)
VerifyBreakDown(banks, BreakDown, k, ValueBitWidth, r) ==
  IF k > Len(BreakDown) THEN r
  ELSE
    LET PartMap == BreakDown[k]
    IN  IF PartMap.Mask.BitWidth # ValueBitWidth
          THEN [r EXCEPT !.msg = "Value does not have the same size accross the partial mappings"]
        ELSE
          LET v == PartialMappingVerify(banks, PartMap)
          IN  IF v # Passes THEN [r EXCEPT !.msg = v]
              ELSE VerifyBreakDown(
                     banks, BreakDown, k + 1, ValueBitWidth,
                     [r EXCEPT !.ValueMask = BitOr(@, PartMap.Mask.Value)])

\* ValueMapping::verify without the assertion of line 391.
ValueMappingVerify_NoCoverTest(banks, VM, ExpectedBitWidth) ==
  IF VM.BreakDown = <<>> THEN "Value mapped nowhere?!"
  ELSE
    LET ValueBitWidth == VM.BreakDown[Len(VM.BreakDown)].Mask.BitWidth
    IN  IF ValueBitWidth # ExpectedBitWidth THEN "BitWidth does not match"
        ELSE VerifyBreakDown(banks, VM.BreakDown, 1, ValueBitWidth,
                             [ValueMask |-> 0, msg |-> Passes]).msg

\* ValueMapping::verify
ValueMappingVerify(banks, VM, ExpectedBitWidth) ==
  IF VM.BreakDown = <<>> THEN "Value mapped nowhere?!"
  ELSE
    LET ValueBitWidth == VM.BreakDown[Len(VM.BreakDown)].Mask.BitWidth
    IN  IF ValueBitWidth # ExpectedBitWidth THEN "BitWidth does not match"
        ELSE
          LET r == VerifyBreakDown(banks, VM.BreakDown, 1, ValueBitWidth,
                                   [ValueMask |-> 0, msg |-> Passes])
          IN  IF r.msg # Passes THEN r.msg
              ELSE IF r.ValueMask # Pow2(ValueBitWidth) - 1
                THEN "Value is not fully mapped"
              ELSE Passes

\* Lines 418-433 with the test of lines 421-425 left out: an operand that is
\* not a register is skipped.
RECURSIVE VerifyOperands_SkipNonReg(_, _, _, _, _)
VerifyOperands_SkipNonReg(tri, banks, Mapping, mi, Idx) ==
  IF ~(Idx < Mapping.NumOperands) THEN Passes
  ELSE
    LET MO == mi.Operands[Idx + 1]
        MOMapping == Mapping.OperandsMapping[Idx + 1]
    IN  IF ~MO.isReg
          THEN VerifyOperands_SkipNonReg(tri, banks, Mapping, mi, Idx + 1)
        ELSE IF MO.Reg = NoRegister
          THEN VerifyOperands_SkipNonReg(tri, banks, Mapping, mi, Idx + 1)
        ELSE
          LET v == ValueMappingVerify(banks, MOMapping,
                                      getSizeInBits(tri, MO.Reg))
          IN  IF v # Passes THEN v
              ELSE VerifyOperands_SkipNonReg(tri, banks, Mapping, mi, Idx + 1)

\* Lines 418-433: the loop over the operands from Idx on.
RECURSIVE VerifyOperands(_, _, _, _, _)
VerifyOperands(tri, banks, Mapping, mi, Idx) ==
  IF ~(Idx < Mapping.NumOperands) THEN Passes
  ELSE
    LET MO == mi.Operands[Idx + 1]
        MOMapping == Mapping.OperandsMapping[Idx + 1]
    IN  IF ~MO.isReg
          THEN IF MOMapping.BreakDown # <<>>
                 THEN "We should not care about non-reg mapping"
                 ELSE VerifyOperands(tri, banks, Mapping, mi, Idx + 1)
        ELSE IF MO.Reg = NoRegister
          THEN VerifyOperands(tri, banks, Mapping, mi, Idx + 1)
        ELSE
          LET v == ValueMappingVerify(banks, MOMapping,
                                      getSizeInBits(tri, MO.Reg))
          IN  IF v # Passes THEN v
              ELSE VerifyOperands(tri, banks, Mapping, mi, Idx + 1)

\* InstructionMapping::verify
InstructionMappingVerify(tri, banks, Mapping, mi) ==
  IF Mapping.NumOperands # Len(mi.Operands)
    THEN "NumOperands must match, see constructor"
    ELSE VerifyOperands(tri, banks, Mapping, mi, 0)

\* ------------------------------------------------------------------------
\* getInstrMapping, getInstrAlternativeMappings, getInstrPossibleMappings
\* ------------------------------------------------------------------------
\* isPreISelGenericOpcode: the generic opcodes of the model.
isPreISelGenericOpcode(Opcode) == Opcode = "G_ADD"

\* InstructionMapping::isValid
MappingIsValid(Mapping) == Mapping.ID # InvalidMappingID

\* llvm_unreachable, with assertions enabled: the message is printed and the
\* program aborts.
llvm_unreachable(msg) == Aborted(msg)

\* getInstrMapping without the test of line 311.
getInstrMapping_NoValidTest(tri, banks, mi) ==
  IF ~isPreISelGenericOpcode(mi.Opcode)
    THEN getInstrMappingImpl(tri, banks, mi)
    ELSE llvm_unreachable("The target must implement this")

\* Lines 307-315.
getInstrMapping(tri, banks, mi) ==
  IF ~isPreISelGenericOpcode(mi.Opcode)
    THEN LET Mapping == getInstrMappingImpl(tri, banks, mi)
         IN  IF HasAborted(Mapping) THEN Mapping
             ELSE IF MappingIsValid(Mapping) THEN Mapping
             ELSE llvm_unreachable("The target must implement this")
    ELSE llvm_unreachable("The target must implement this")

\* Lines 333-337: the base class has no alternative.
getInstrAlternativeMappings(mi) == <<>>

\* Lines 327-328: the first assertion that fails when every mapping from
\* position k on is verified against mi.
RECURSIVE VerifyAll(_, _, _, _, _)
VerifyAll(tri, banks, PossibleMappings, mi, k) ==
  IF k > Len(PossibleMappings) THEN Passes
  ELSE LET v == InstructionMappingVerify(tri, banks, PossibleMappings[k], mi)
       IN  IF v # Passes THEN v
           ELSE VerifyAll(tri, banks, PossibleMappings, mi, k + 1)

\* getInstrPossibleMappings with the default mapping appended after the
\* alternatives.
getInstrPossibleMappings_DefaultLast(tri, banks, mi, AltMappings) ==
  LET Default == getInstrMapping(tri, banks, mi)
  IN  IF HasAborted(Default) THEN Default
      ELSE
        LET PossibleMappings == AltMappings \o <<Default>>
            v == VerifyAll(tri, banks, PossibleMappings, mi, 1)
        IN  IF v # Passes THEN Aborted(v)
            ELSE [PossibleMappings |-> PossibleMappings]

\* Lines 317-331, with assertions enabled.  AltMappings is what the
\* target's getInstrAlternativeMappings(MI) returns.  The result is the
\* record of the sequence returned, or the assertion that failed.
getInstrPossibleMappings(tri, banks, mi, AltMappings) ==
  LET Default == getInstrMapping(tri, banks, mi)
  IN  IF HasAborted(Default) THEN Default
      ELSE
        LET PossibleMappings == <<Default>> \o AltMappings
            v == VerifyAll(tri, banks, PossibleMappings, mi, 1)
        IN  IF v # Passes THEN Aborted(v)
            ELSE [PossibleMappings |-> PossibleMappings]

\* An alternative mapping of a target: the operand mappings of the default
\* inference under the target's own ID k and a higher cost.
TargetMapping(tri, banks, mi, k) ==
  LET D == getInstrMappingImpl(tri, banks, mi)
  IN  IF ~HasAborted(D) /\ MappingIsValid(D)
        THEN [D EXCEPT !.ID = k, !.Cost = k + 1]
        ELSE InstructionMapping(k, k + 1, Len(mi.Operands))

\* What getInstrAlternativeMappings may return: nothing in the base class,
\* one or two mappings in a target that overrides it.
AlternativeMappings(tri, banks, mi) ==
  {getInstrAlternativeMappings(mi),
   <<TargetMapping(tri, banks, mi, 1)>>,
   <<TargetMapping(tri, banks, mi, 1), TargetMapping(tri, banks, mi, 2)>>,
   <<TargetMapping(tri, banks, mi, 2), TargetMapping(tri, banks, mi, 1)>>}

\* ------------------------------------------------------------------------
\* Specification of the mapping queries.
\* ------------------------------------------------------------------------
InitMap ==
  /\ TRI = FlatCatalog
  /\ RegBanks = InitializedRegBanks(TRI)
  /\ pc = "idle"
  /\ WorkList = <<>>
  /\ frame = NoFrame
  /\ last = NoCall
  /\ seeded = {}
  /\ fatal = ""
  /\ IsMachineInstr(MI, TRI, RegBanks)
  /\ Arg = NoArg
  /\ Ret = NoRet

CallGetInstrMappingImpl ==
  /\ Ret' = [kind |-> "getInstrMappingImpl",
             value |-> getInstrMappingImpl(TRI, RegBanks, MI)]
  /\ UNCHANGED <<TRI, RegBanks, pc, WorkList, frame, last, seeded, fatal, MI,
               Arg>>

\* One query on each instruction.
FirstGetInstrMappingImpl == Ret = NoRet /\ CallGetInstrMappingImpl

NextMap == FirstGetInstrMappingImpl

SpecMap == InitMap /\ [][NextMap]_vars

\* ------------------------------------------------------------------------
\* Specification of every query on one instruction, in any order and any
\* number of times, as the threads of a compilation issue them.
\* ------------------------------------------------------------------------
\* The operands of the queried instruction: an operand that is no register,
\* no register, a physical register of the first or of the last class, a
\* generic register assigned to the first bank, and a generic register
\* without a bank.
QueryOperands(tri, banks) ==
  {Operand(FALSE, NoRegister, NoClass), Operand(TRUE, NoRegister, NoClass),
   Operand(TRUE, PhysReg(0), NoClass),
   Operand(TRUE, PhysReg(tri.NumRegClasses - 1), NoClass),
   Operand(TRUE, VirtReg(<<"bank", 0>>, BitsPerByte), NoClass),
   Operand(TRUE, VirtReg(<<"null">>, BitsPerByte), NoClass)}

IsQueriedInstr(mi, tri, banks) ==
  \E o \in Opcodes, n \in 1 .. MaxOperands :
    \E ops \in [1 .. n -> QueryOperands(tri, banks)] :
      mi = [Opcode |-> o, Operands |-> ops]

InitQuery ==
  /\ TRI = FlatCatalog
  /\ RegBanks = InitializedRegBanks(TRI)
  /\ pc = "idle"
  /\ WorkList = <<>>
  /\ frame = NoFrame
  /\ last = NoCall
  /\ seeded = {}
  /\ fatal = ""
  /\ IsQueriedInstr(MI, TRI, RegBanks)
  /\ Arg = NoArg
  /\ Ret = NoRet

\* getRegBank(Reg, MRI, TRI) on the register of an operand; line 218
\* asserts that the register is not NoRegister.
CallGetRegBank_Caching ==
  \E i \in 1 .. Len(MI.Operands) :
    /\ MI.Operands[i].isReg
    /\ MI.Operands[i].Reg # NoRegister
    /\ Ret' = [kind |-> "getRegBank", OpIdx |-> i - 1,
               value |-> getRegBank(MI.Operands[i].Reg)]
    /\ RegBanks' =
         IF getRegBank(MI.Operands[i].Reg) = NullBank THEN RegBanks
         ELSE [RegBanks EXCEPT ![getRegBank(MI.Operands[i].Reg)].Size =
                 Max(@, getSizeInBits(TRI, MI.Operands[i].Reg) + BitsPerByte)]
    /\ UNCHANGED <<TRI, pc, WorkList, frame, last, seeded, fatal, MI, Arg>>

CallGetRegBank ==
  \E i \in 1 .. Len(MI.Operands) :
    /\ MI.Operands[i].isReg
    /\ MI.Operands[i].Reg # NoRegister
    /\ Ret' = [kind |-> "getRegBank", OpIdx |-> i - 1,
               value |-> getRegBank(MI.Operands[i].Reg)]
    /\ UNCHANGED <<TRI, RegBanks, pc, WorkList, frame, last, seeded, fatal,
                   MI, Arg>>

CallGetInstrMapping ==
  /\ Ret' = [kind |-> "getInstrMapping",
             value |-> getInstrMapping(TRI, RegBanks, MI)]
  /\ UNCHANGED <<TRI, RegBanks, pc, WorkList, frame, last, seeded, fatal, MI,
               Arg>>

CallGetInstrPossibleMappings ==
  \E Alt \in AlternativeMappings(TRI, RegBanks, MI) :
    /\ Ret' = [kind |-> "getInstrPossibleMappings", alt |-> Alt,
               value |-> getInstrPossibleMappings(TRI, RegBanks, MI, Alt)]
    /\ UNCHANGED <<TRI, RegBanks, pc, WorkList, frame, last, seeded, fatal,
                   MI, Arg>>

\* InstructionMapping::verify(MI) on a mapping a caller holds for MI.
CallVerify ==
  \E k \in 0 .. 2 :
    LET Mapping == IF k = 0 THEN getInstrMappingImpl(TRI, RegBanks, MI)
                   ELSE TargetMapping(TRI, RegBanks, MI, k)
    IN  /\ ~HasAborted(Mapping)
        /\ Ret' = [kind |-> "verify", arg |-> Mapping,
                   value |-> InstructionMappingVerify(TRI, RegBanks,
                                                      Mapping, MI)]
        /\ UNCHANGED <<TRI, RegBanks, pc, WorkList, frame, last, seeded,
                       fatal, MI, Arg>>

NextQuery ==
  \/ CallGetRegBank
  \/ CallGetInstrMappingImpl
  \/ CallGetInstrMapping
  \/ CallGetInstrPossibleMappings
  \/ CallVerify

SpecQuery == InitQuery /\ [][NextQuery]_vars

\* ------------------------------------------------------------------------
\* Specification of the verify passes, applied to mappings that any caller
\* may have built.
\* ------------------------------------------------------------------------
\* The masks of W bits: no bit, bit 0, every bit, the two end bits, the low
\* byte, and the bits above the low byte.
Masks(W) ==
  {[BitWidth |-> W, Value |-> v] :
     v \in {0, 1, Pow2(W) - 1, 1 + Pow2(W - 1), Pow2(BitsPerByte) - 1,
            Pow2(W) - Pow2(BitsPerByte)}}

VerifiedPartialMappings ==
  {PartialMapping(Mask, b) :
     Mask \in UNION {Masks(W) : W \in GenericSizes},
     b \in {NullBank} \cup RegBankIDs}

VerifiedValueMappings ==
  {[BreakDown |-> bd] :
     bd \in UNION {[1 .. n -> VerifiedPartialMappings] :
                     n \in 0 .. MaxBreakDown}}

\* The instructions a mapping is verified against.
VerifiedOperands ==
  {Operand(FALSE, NoRegister, NoClass), Operand(TRUE, NoRegister, NoClass),
   Operand(TRUE, PhysReg(0), NoClass),
   Operand(TRUE, VirtReg(<<"null">>, MaxRCSize * BitsPerByte), NoClass)}

VerifiedInstrs ==
  {[Opcode |-> "COPY", Operands |-> ops] :
     ops \in UNION {[1 .. n -> VerifiedOperands] : n \in 1 .. MaxOperands}}

\* The operand mappings of the verified instruction mappings: empty, bit 0
\* of the narrowest register, all its bits, and all the bits of the widest
\* register in the first and in the last bank.
VerifiedOperandMappings ==
  {EmptyValueMapping,
   [BreakDown |-> <<PartialMapping([BitWidth |-> BitsPerByte, Value |-> 1],
                                   0)>>],
   [BreakDown |-> <<PartialMapping(AllOnes(BitsPerByte), 0)>>],
   [BreakDown |-> <<PartialMapping(AllOnes(MaxRCSize * BitsPerByte), 0)>>],
   [BreakDown |->
      <<PartialMapping(AllOnes(MaxRCSize * BitsPerByte), NumRegBanks - 1)>>]}

VerifiedMappings ==
  UNION {{[ID |-> DefaultMappingID, Cost |-> 1, NumOperands |-> n,
           OperandsMapping |-> om] :
            om \in [1 .. n -> VerifiedOperandMappings]} :
         n \in 0 .. MaxOperands}

InitVerify ==
  /\ TRI = FlatCatalog
  /\ RegBanks = InitializedRegBanks(TRI)
  /\ pc = "idle"
  /\ WorkList = <<>>
  /\ frame = NoFrame
  /\ last = NoCall
  /\ seeded = {}
  /\ fatal = ""
  /\ \/ /\ MI = NoMI
        /\ \E PartMap \in VerifiedPartialMappings :
             Arg = [kind |-> "PartialMapping", PartMap |-> PartMap]
     \/ /\ MI = NoMI
        /\ \E VM \in VerifiedValueMappings, W \in GenericSizes :
             Arg = [kind |-> "ValueMapping", VM |-> VM,
                    ExpectedBitWidth |-> W]
     \/ /\ MI \in VerifiedInstrs
        /\ \E Mapping \in VerifiedMappings :
             Arg = [kind |-> "InstructionMapping", Mapping |-> Mapping]
  /\ Ret = NoRet

CallPartialMappingVerify ==
  /\ Arg.kind = "PartialMapping"
  /\ Ret = NoRet
  /\ Ret' = [kind |-> "PartialMapping::verify",
             value |-> PartialMappingVerify(RegBanks, Arg.PartMap)]
  /\ UNCHANGED <<TRI, RegBanks, pc, WorkList, frame, last, seeded, fatal, MI,
                 Arg>>

CallValueMappingVerify ==
  /\ Arg.kind = "ValueMapping"
  /\ Ret = NoRet
  /\ Ret' = [kind |-> "ValueMapping::verify",
             value |-> ValueMappingVerify(RegBanks, Arg.VM,
                                          Arg.ExpectedBitWidth)]
  /\ UNCHANGED <<TRI, RegBanks, pc, WorkList, frame, last, seeded, fatal, MI,
                 Arg>>

CallInstructionMappingVerify ==
  /\ Arg.kind = "InstructionMapping"
  /\ Ret = NoRet
  /\ Ret' = [kind |-> "InstructionMapping::verify",
             value |-> InstructionMappingVerify(TRI, RegBanks, Arg.Mapping,
                                                MI)]
  /\ UNCHANGED <<TRI, RegBanks, pc, WorkList, frame, last, seeded, fatal, MI,
                 Arg>>

NextVerify ==
  \/ CallPartialMappingVerify
  \/ CallValueMappingVerify
  \/ CallInstructionMappingVerify

SpecVerify == InitVerify /\ [][NextVerify]_vars

\* ------------------------------------------------------------------------
\* ObjectFile (src/lib/Object/ObjectFile.cpp).
\* ------------------------------------------------------------------------
\* sys::fs::file_magic
InvalidKinds ==
  {"unknown", "bitcode", "archive", "macho_universal_binary",
   "windows_resource"}

ELFKinds ==
  {"elf", "elf_relocatable", "elf_executable", "elf_shared_object",
   "elf_core"}

MachOKinds ==
  {"macho_object", "macho_executable",
   "macho_fixed_virtual_memory_shared_lib", "macho_core",
   "macho_preload_executable", "macho_dynamically_linked_shared_lib",
   "macho_dynamic_linker", "macho_bundle",
   "macho_dynamically_linked_shared_lib_stub", "macho_dsym_companion",
   "macho_kext_bundle"}

COFFKinds == {"coff_object", "coff_import_library", "pecoff_executable"}

file_magic == InvalidKinds \cup ELFKinds \cup MachOKinds \cup COFFKinds

Readers == {"ELF", "MachO", "COFF"}

\* A memory buffer: what identify_magic finds at its start, and the readers
\* that parse it.
MemoryBuffers == [Magic : file_magic, Parses : SUBSET Readers]

\* A symbol of an object file: its flags, and what the format answers for
\* its common size and for its value.
SymbolFlags == {"SF_Undefined", "SF_Global", "SF_Common"}

Symbols ==
  [Flags : SUBSET SymbolFlags,
   CommonSymbolSize : 0 .. MaxSymbolValue,
   SymbolValueImpl : 0 .. MaxSymbolValue]

\* Line 39-44 with the two tests in the other order.
getSymbolValue_CommonFirst(Ref) ==
  IF "SF_Common" \in Ref.Flags THEN Ref.CommonSymbolSize
  ELSE IF "SF_Undefined" \in Ref.Flags THEN 0
  ELSE Ref.SymbolValueImpl

\* ObjectFile::getSymbolValue
getSymbolValue(Ref) ==
  IF "SF_Undefined" \in Ref.Flags THEN 0
  ELSE IF "SF_Common" \in Ref.Flags THEN Ref.CommonSymbolSize
  ELSE Ref.SymbolValueImpl

\* An Error, or an Expected or ErrorOr in the error state.
errorCodeToError(EC) == [kind |-> "error", code |-> EC]

\* An Expected that holds an object file of a format over a buffer.
ObjectOf(Format, Object) ==
  [kind |-> "object", Format |-> Format, Data |-> Object]

IsError(E) == E.kind = "error"

\* sys::fs::identify_magic
identify_magic(Data) == Data.Magic

\* The readers of the three formats.
createELFObjectFile(Object) ==
  IF "ELF" \in Object.Parses THEN ObjectOf("ELF", Object)
  ELSE errorCodeToError("parse_failed")

createMachOObjectFile(Object) ==
  IF "MachO" \in Object.Parses THEN ObjectOf("MachO", Object)
  ELSE errorCodeToError("parse_failed")

createCOFFObjectFile(Object) ==
  IF "COFF" \in Object.Parses THEN ObjectOf("COFF", Object)
  ELSE errorCodeToError("parse_failed")

\* Lines 72-73 with the magic identified whatever the hint.
TypeOf_AlwaysIdentify(Object, Type) == identify_magic(Object)

\* Lines 72-73.
TypeOf(Object, Type) ==
  IF Type = "unknown" THEN identify_magic(Object) ELSE Type

\* ObjectFile::createObjectFile(MemoryBufferRef, file_magic)
createObjectFile(Object, Type) ==
  LET T == TypeOf(Object, Type)
  IN  IF T \in InvalidKinds THEN errorCodeToError("invalid_file_type")
      ELSE IF T \in ELFKinds THEN createELFObjectFile(Object)
      ELSE IF T \in MachOKinds THEN createMachOObjectFile(Object)
      ELSE IF T \in COFFKinds THEN createCOFFObjectFile(Object)
      ELSE llvm_unreachable("Unexpected Object File Type")

\* A file: MemoryBuffer::getFile gives an error code or a buffer.
Files ==
  {[error |-> EC] : EC \in {"no_such_file_or_directory", "permission_denied"}}
    \cup {[buffer |-> B] : B \in MemoryBuffers}

FileIsError(F) == "error" \in DOMAIN F

OwningBinary(Obj, Buffer) ==
  [kind |-> "OwningBinary", Obj |-> Obj, Buffer |-> Buffer]

\* Lines 118-120 when ObjOrErr is in the error state.  The Error that
\* takeError returns is dropped: a build that checks Errors aborts there.
\* Otherwise get() is called on an Expected that holds no object, and what
\* it yields is indeterminate.
IndeterminateObject == [kind |-> "indeterminate"]

UseOfFailedExpected(Buffer) ==
  {Aborted("Program aborted due to an unhandled Error"),
   OwningBinary(IndeterminateObject, Buffer)}

\* ObjectFile::createObjectFile(StringRef ObjectPath): the set of its
\* possible results.
createObjectFilePath(File) ==
  IF FileIsError(File) THEN {errorCodeToError(File.error)}
  ELSE LET Buffer == File.buffer
           ObjOrErr == createObjectFile(Buffer, "unknown")
       IN  IF IsError(ObjOrErr) THEN UseOfFailedExpected(Buffer)
           ELSE {OwningBinary(ObjOrErr, Buffer)}

InitObject ==
  /\ TRI = FlatCatalog
  /\ RegBanks = [b \in RegBankIDs |-> NewRegisterBank]
  /\ pc = "idle"
  /\ WorkList = <<>>
  /\ frame = NoFrame
  /\ last = NoCall
  /\ seeded = {}
  /\ fatal = ""
  /\ MI = NoMI
  /\ \/ \E Ref \in Symbols : Arg = [kind |-> "Symbol", Ref |-> Ref]
     \/ \E Object \in MemoryBuffers, Type \in file_magic :
          Arg = [kind |-> "Buffer", Object |-> Object, Type |-> Type]
     \/ \E File \in Files : Arg = [kind |-> "Path", File |-> File]
  /\ Ret = NoRet

CallGetSymbolValue ==
  /\ Arg.kind = "Symbol"
  /\ Ret = NoRet
  /\ Ret' = [kind |-> "getSymbolValue", value |-> getSymbolValue(Arg.Ref)]
  /\ UNCHANGED <<TRI, RegBanks, pc, WorkList, frame, last, seeded, fatal, MI,
                 Arg>>

CallCreateObjectFile ==
  /\ Arg.kind = "Buffer"
  /\ Ret = NoRet
  /\ Ret' = [kind |-> "createObjectFile",
             value |-> createObjectFile(Arg.Object, Arg.Type)]
  /\ UNCHANGED <<TRI, RegBanks, pc, WorkList, frame, last, seeded, fatal, MI,
                 Arg>>

CallCreateObjectFilePath ==
  /\ Arg.kind = "Path"
  /\ Ret = NoRet
  /\ \E R \in createObjectFilePath(Arg.File) :
       Ret' = [kind |-> "createObjectFilePath", value |-> R]
  /\ UNCHANGED <<TRI, RegBanks, pc, WorkList, frame, last, seeded, fatal, MI,
                 Arg>>

NextObject ==
  \/ CallGetSymbolValue
  \/ CallCreateObjectFile
  \/ CallCreateObjectFilePath

SpecObject == InitObject /\ [][NextObject]_vars

\* ------------------------------------------------------------------------
\* The relations of the catalog as sets, and the closure the builder is
\* meant to compute.
\* ------------------------------------------------------------------------
BitIsSet(Mask, i) == (Mask \div Pow2(i)) % 2 = 1

\* The classes named in the subclass mask of c.
SubClassesOf(tri, c) ==
  {s \in RegClassIDs : BitIsSet(tri.SubClassMask[c], s)}

\* The super-register classes of x, over every sub-register index.
SuperRegClassesOf(tri, x) ==
  {y \in RegClassIDs :
     \E i \in SubRegIndices : BitIsSet(tri.SuperRCMasks[x][i], y)}

\* The classes that have y as a super-register class.
SubRegClassesOf(tri, y) ==
  {x \in RegClassIDs : y \in SuperRegClassesOf(tri, x)}

\* The least set that contains S and is closed under both relations.
RECURSIVE Closure(_, _)
Closure(tri, S) ==
  LET N == S \cup UNION {SubClassesOf(tri, c) \cup SubRegClassesOf(tri, c) :
                           c \in S}
  IN  IF N = S THEN S ELSE Closure(tri, N)

Covered(RB) == BVBits(RB.ContainedRegClasses)

BitWidth(tri, c) == tri.Size[c] * BitsPerByte

RECURSIVE MaxBitWidth(_, _)
MaxBitWidth(tri, S) ==
  IF S = {} THEN 0
  ELSE LET c == CHOOSE x \in S : TRUE
       IN  Max(BitWidth(tri, c), MaxBitWidth(tri, S \ {c}))

Returns == pc = "examine" /\ pc' = "idle"

\* ------------------------------------------------------------------------
\* Claims.
\* ------------------------------------------------------------------------
\* C1: when addRegBankCoverage(bank, seed) returns, the bank's covered set is
\* its covered set on entry united with the least set that contains the seed
\* and is closed under the subclass masks and under "has a member as a
\* super-register class"; a call that returns at once because the seed is
\* covered leaves a set that already contains that closure.
C1_Step ==
  Returns =>
    Covered(RegBanks'[frame.ID]) =
      Covered(frame.entry) \cup Closure(TRI, {frame.RCId})

C1_Early ==
  pc = "idle" =>
    \A b \in RegBankIDs : \A c \in Covered(RegBanks[b]) :
      Closure(TRI, {c}) \subseteq Covered(RegBanks[b])

C1_CoverageIsClosure == [][C1_Step]_vars /\ []C1_Early

C1_Witness ==
  /\ pc = "idle"
  /\ \E b \in RegBankIDs, c \in RegClassIDs :
       /\ Covered(RegBanks[b]) = Closure(TRI, {c})
       /\ Cardinality(Closure(TRI, {c})) >= 3
       /\ SubClassesOf(TRI, c) \ {c} # {}
       /\ \E x \in RegClassIDs : SubRegClassesOf(TRI, x) \ {c} # {}

\* C2: between calls, every bank is at least as wide as every register class
\* it covers.
C2_SizeCoversClasses ==
  pc = "idle" =>
    \A b \in RegBankIDs : \A c \in Covered(RegBanks[b]) :
      RegBanks[b].Size >= BitWidth(TRI, c)

C2_Witness ==
  /\ pc = "idle"
  /\ \E b \in RegBankIDs : \E c, d \in Covered(RegBanks[b]) :
       BitWidth(TRI, c) < BitWidth(TRI, d)

\* C3: a second addRegBankCoverage call with a pair that has completed before
\* changes neither the covered set nor the Size of any bank and returns
\* without entering the loop.
C3_Step ==
  \A ID \in RegBankIDs, RCId \in RegClassIDs :
    (<<ID, RCId>> \in seeded /\ addRegBankCoverage(ID, RCId)) =>
      (RegBanks' = RegBanks /\ pc' = "idle" /\ WorkList' = <<>>)

C3_SecondCallIsNoOp == [][C3_Step]_vars

C3_Witness ==
  /\ last.op = "addRegBankCoverage"
  /\ last.again
  /\ pc = "idle"
  /\ fatal = ""

\* C4: on a bank without coverage, addRegBankCoverage with seed Y covers
\* every class X that has Y as a super-register class, and everything
\* reachable from X.
C4_Step ==
  (Returns /\ Covered(frame.entry) = {}) =>
    \A X \in SubRegClassesOf(TRI, frame.RCId) :
      /\ X \in Covered(RegBanks'[frame.ID])
      /\ Closure(TRI, {X}) \subseteq Covered(RegBanks'[frame.ID])

C4_SubRegClassesCovered == [][C4_Step]_vars

C4_Witness ==
  /\ pc = "idle"
  /\ \E b \in RegBankIDs, Y \in RegClassIDs :
       /\ Covered(RegBanks[b]) = Closure(TRI, {Y})
       /\ \E X \in SubRegClassesOf(TRI, Y) \ {Y} :
            Closure(TRI, {X}) \ {X, Y} # {}

\* C5: every addRegBankCoverage call returns: from inside the loop the
\* worklist eventually becomes empty.
C5_Terminates == (pc # "idle") ~> (pc = "idle")

C5_Witness ==
  /\ pc = "idle"
  /\ \E c \in RegClassIDs :
       /\ c \in Covered(RegBanks[0])
       /\ \E d \in SubClassesOf(TRI, c) \ {c} : c \in SubRegClassesOf(TRI, d)

\* C6: between calls, the Size of a bank is exactly the largest bit-width of
\* the classes it covers, and 0 when it covers none.
C6_SizeIsMaxWidth ==
  pc = "idle" =>
    \A b \in RegBankIDs :
      RegBanks[b].Size = MaxBitWidth(TRI, Covered(RegBanks[b]))

C6_Witness ==
  /\ pc = "idle"
  /\ \E b \in RegBankIDs :
       /\ Cardinality(Covered(RegBanks[b])) >= 2
       /\ RegBanks[b].Size < MaxRCSize * BitsPerByte
  /\ \E b \in RegBankIDs : Covered(RegBanks[b]) = {}

\* C7: createRegisterBank(id, name) aborts when id is outside the registry
\* or the bank is already created; otherwise it sets that bank's ID and Name
\* and nothing else; an ID, once assigned, is never assigned again.
C7_Step ==
  /\ \A ID \in 0 .. NumRegBanks, Name \in BankNames :
       createRegisterBank(ID, Name) =>
         IF ID \notin RegBankIDs \/ RegBanks[ID].ID # InvalidID
           THEN fatal' # "" /\ RegBanks' = RegBanks
           ELSE /\ fatal' = ""
                /\ RegBanks' = [RegBanks EXCEPT ![ID].ID = ID,
                                                ![ID].Name = Name]
  /\ \A b \in RegBankIDs :
       RegBanks[b].ID # InvalidID =>
         (RegBanks'[b].ID = RegBanks[b].ID /\ RegBanks'[b].Name = RegBanks[b].Name)

C7_CreatedOnce == [][C7_Step]_vars

C7_Witness ==
  /\ fatal = "A register bank should be created only once"
  /\ \E b \in RegBankIDs : RegBanks[b].ID = b /\ RegBanks[b].Name \in BankNames

\* ------------------------------------------------------------------------
\* What the claims about the mapping queries speak of, stated on the
\* operands themselves.
\* ------------------------------------------------------------------------
Called == Ret # NoRet /\ Ret.kind = "getInstrMappingImpl"

NumOperandsOf(mi) == Len(mi.Operands)
OperandIdx(mi) == 1 .. NumOperandsOf(mi)

\* A register operand that holds a real register.
HoldsRegister(mo) == mo.isReg /\ mo.Reg.kind # "none"

\* The bank already known for the register: that of the minimal class of a
\* physical register, the bank assigned to a virtual register, or that of
\* the class assigned to it.
KnownBank(mo) ==
  CASE mo.Reg.kind = "phys" ->
         getRegBankFromRegClass(mo.Reg.MinimalPhysRegClass)
    [] mo.Reg.kind = "virt" /\ mo.Reg.RegClassOrRegBank[1] = "bank" ->
         mo.Reg.RegClassOrRegBank[2]
    [] mo.Reg.kind = "virt" /\ mo.Reg.RegClassOrRegBank[1] = "class" ->
         getRegBankFromRegClass(mo.Reg.RegClassOrRegBank[2])
    [] OTHER -> NullBank

\* The bank the operand resolves on its own: the known one, else that of the
\* register-class constraint of the encoding.
OwnBank(mo) ==
  IF KnownBank(mo) # NullBank THEN KnownBank(mo)
  ELSE IF mo.RegClassConstraint # NoClass
    THEN getRegBankFromRegClass(mo.RegClassConstraint)
  ELSE NullBank

Resolves(mo) == HoldsRegister(mo) /\ OwnBank(mo) # NullBank
Unresolved(mo) == HoldsRegister(mo) /\ OwnBank(mo) = NullBank

\* The width in bits of the register of the operand.
OwnWidth(tri, mo) ==
  CASE mo.Reg.kind = "phys" -> BitWidth(tri, mo.Reg.MinimalPhysRegClass)
    [] mo.Reg.kind = "virt" /\ mo.Reg.Size # 0 -> mo.Reg.Size
    [] OTHER -> BitWidth(tri, mo.Reg.RegClassOrRegBank[2])

\* One partial mapping: all W bits in bank B.
WholeIn(W, B) ==
  <<[Mask |-> [BitWidth |-> W, Value |-> Pow2(W) - 1], RegBank |-> B]>>

IsInvalidMapping(m) ==
  /\ ~HasAborted(m)
  /\ m.ID = InvalidMappingID
  /\ m.NumOperands = 0
  /\ m.OperandsMapping = <<>>

\* C8: for an instruction that is neither a copy nor a PHI, one register
\* operand with neither a known bank nor a register-class constraint makes
\* getInstrMappingImpl return the invalid mapping, with no operand mapping.
C8_NonCopyFails ==
  (/\ Called
   /\ MI.Opcode \notin {"COPY", "PHI"}
   /\ \E i \in OperandIdx(MI) : Unresolved(MI.Operands[i]))
    => IsInvalidMapping(Ret.value)

C8_Witness ==
  /\ Called
  /\ MI.Opcode = "ADD"
  /\ NumOperandsOf(MI) = 3
  /\ Resolves(MI.Operands[1])
  /\ Resolves(MI.Operands[2])
  /\ Unresolved(MI.Operands[3])
  /\ IsInvalidMapping(Ret.value)

\* C9: when every register operand with a real register resolves a bank on
\* its own, getInstrMappingImpl returns the default mapping ID, cost 1, one
\* slot per operand, each such operand in its own bank over its own width,
\* and every other operand empty.
C9_CompleteMapping ==
  (/\ Called
   /\ \A i \in OperandIdx(MI) :
        HoldsRegister(MI.Operands[i]) => Resolves(MI.Operands[i]))
    => /\ ~HasAborted(Ret.value)
       /\ Ret.value.ID = DefaultMappingID
       /\ Ret.value.ID # InvalidMappingID
       /\ Ret.value.Cost = 1
       /\ Ret.value.NumOperands = NumOperandsOf(MI)
       /\ Len(Ret.value.OperandsMapping) = NumOperandsOf(MI)
       /\ \A i \in OperandIdx(MI) :
            Ret.value.OperandsMapping[i].BreakDown =
              IF HoldsRegister(MI.Operands[i])
                THEN WholeIn(OwnWidth(TRI, MI.Operands[i]),
                             OwnBank(MI.Operands[i]))
                ELSE <<>>

C9_Witness ==
  /\ Called
  /\ NumOperandsOf(MI) = 3
  /\ ~MI.Operands[1].isReg
  /\ Resolves(MI.Operands[2])
  /\ Resolves(MI.Operands[3])
  /\ KnownBank(MI.Operands[2]) = NullBank
  /\ MI.Operands[3].Reg.kind = "phys"
  /\ OwnBank(MI.Operands[2]) # OwnBank(MI.Operands[3])
  /\ OwnWidth(TRI, MI.Operands[2]) # OwnWidth(TRI, MI.Operands[3])
  /\ ~HasAborted(Ret.value)
  /\ Ret.value.ID = DefaultMappingID

\* C10: for a copy of two registers of which exactly one resolves a bank B,
\* with a register W bits wide, both operands are mapped to B over W bits,
\* whichever of the two is the resolved one.
C10_CopyPropagation ==
  \A r, u \in 1 .. 2 :
    (/\ Called
     /\ MI.Opcode = "COPY"
     /\ NumOperandsOf(MI) = 2
     /\ r # u
     /\ Resolves(MI.Operands[r])
     /\ Unresolved(MI.Operands[u]))
      => /\ ~HasAborted(Ret.value)
         /\ Ret.value.ID = DefaultMappingID
         /\ Ret.value.NumOperands = 2
         /\ \A i \in 1 .. 2 :
              Ret.value.OperandsMapping[i].BreakDown =
                WholeIn(OwnWidth(TRI, MI.Operands[r]), OwnBank(MI.Operands[r]))

C10_Witness ==
  /\ Called
  /\ MI.Opcode = "COPY"
  /\ NumOperandsOf(MI) = 2
  /\ Unresolved(MI.Operands[1])
  /\ Resolves(MI.Operands[2])
  /\ OwnWidth(TRI, MI.Operands[1]) # OwnWidth(TRI, MI.Operands[2])
  /\ ~HasAborted(Ret.value)
  /\ Ret.value.OperandsMapping[1].BreakDown =
       WholeIn(OwnWidth(TRI, MI.Operands[2]), OwnBank(MI.Operands[2]))

\* C11: for a copy or a PHI whose register operands all lack both a known
\* bank and a register-class constraint, getInstrMappingImpl returns the
\* invalid mapping.  A copy or a PHI has at least one register operand.
C11_CopyLikeNoBankFails ==
  (/\ Called
   /\ MI.Opcode \in {"COPY", "PHI"}
   /\ \E i \in OperandIdx(MI) : HoldsRegister(MI.Operands[i])
   /\ \A i \in OperandIdx(MI) : ~Resolves(MI.Operands[i]))
    => IsInvalidMapping(Ret.value)

C11_Witness ==
  /\ Called
  /\ MI.Opcode = "PHI"
  /\ NumOperandsOf(MI) = 3
  /\ Unresolved(MI.Operands[1])
  /\ Unresolved(MI.Operands[2])
  /\ ~MI.Operands[3].isReg
  /\ IsInvalidMapping(Ret.value)

\* The first operand, in operand order, that resolves a bank on its own.
FirstResolved(mi) ==
  CHOOSE i \in OperandIdx(mi) :
    /\ Resolves(mi.Operands[i])
    /\ \A j \in 1 .. (i - 1) : ~Resolves(mi.Operands[j])

\* Where the scan of a copy-like instruction stops: at the first unresolved
\* operand that follows a resolved one, or past the last operand.
ScanStop(mi) ==
  LET Stops == {i \in OperandIdx(mi) :
                  /\ Unresolved(mi.Operands[i])
                  /\ \E j \in 1 .. (i - 1) : Resolves(mi.Operands[j])}
  IN  IF Stops = {} THEN NumOperandsOf(mi) + 1
      ELSE CHOOSE i \in Stops : \A k \in Stops : i <= k

\* The last resolved operand the scan meets before it stops.
LastScanned(mi) ==
  CHOOSE i \in OperandIdx(mi) :
    /\ i < ScanStop(mi)
    /\ Resolves(mi.Operands[i])
    /\ \A j \in (i + 1) .. (ScanStop(mi) - 1) : ~Resolves(mi.Operands[j])

PartlyResolvedCopyLike ==
  /\ Called
  /\ MI.Opcode \in {"COPY", "PHI"}
  /\ \E i \in OperandIdx(MI) : Unresolved(MI.Operands[i])
  /\ \E i \in OperandIdx(MI) : Resolves(MI.Operands[i])

\* C12 as stated: in a copy-like instruction with a resolved and an
\* unresolved operand, every unresolved operand is given the bank of the
\* first resolved operand, over the width of that operand's register.
C12_FirstResolvedPropagates ==
  PartlyResolvedCopyLike
    => /\ ~HasAborted(Ret.value)
       /\ Ret.value.ID = DefaultMappingID
       /\ \A i \in OperandIdx(MI) :
            Unresolved(MI.Operands[i])
              => Ret.value.OperandsMapping[i].BreakDown =
                   WholeIn(OwnWidth(TRI, MI.Operands[FirstResolved(MI)]),
                           OwnBank(MI.Operands[FirstResolved(MI)]))

\* C12, amended: the scan stops at the first unresolved operand that follows
\* a resolved one; the resolved operands before that point keep their own
\* bank and width, and every other operand is given the bank of the last
\* resolved operand before that point, over the width of its register.
C12_LastScannedPropagates ==
  PartlyResolvedCopyLike
    => /\ ~HasAborted(Ret.value)
       /\ Ret.value.ID = DefaultMappingID
       /\ Ret.value.NumOperands = NumOperandsOf(MI)
       /\ \A i \in OperandIdx(MI) :
            Ret.value.OperandsMapping[i].BreakDown =
              IF Resolves(MI.Operands[i]) /\ i < ScanStop(MI)
                THEN WholeIn(OwnWidth(TRI, MI.Operands[i]),
                             OwnBank(MI.Operands[i]))
                ELSE WholeIn(OwnWidth(TRI, MI.Operands[LastScanned(MI)]),
                             OwnBank(MI.Operands[LastScanned(MI)]))

C12_Witness ==
  /\ PartlyResolvedCopyLike
  /\ NumOperandsOf(MI) = 3
  /\ Resolves(MI.Operands[1])
  /\ Resolves(MI.Operands[2])
  /\ Unresolved(MI.Operands[3])
  /\ OwnBank(MI.Operands[1]) # OwnBank(MI.Operands[2])
  /\ OwnWidth(TRI, MI.Operands[1]) # OwnWidth(TRI, MI.Operands[2])
  /\ ~HasAborted(Ret.value)
  /\ Ret.value.OperandsMapping[3].BreakDown =
       WholeIn(OwnWidth(TRI, MI.Operands[2]), OwnBank(MI.Operands[2]))

\* C13: every mapping in the sequence getInstrPossibleMappings returns
\* passes InstructionMapping::verify against the instruction, and so does
\* every valid mapping getInstrMappingImpl builds, on its complete path and
\* on its copy-like propagation path.
C13_ReturnedMappingsVerify ==
  /\ (Ret.kind = "getInstrPossibleMappings" /\ ~HasAborted(Ret.value))
       => \A k \in 1 .. Len(Ret.value.PossibleMappings) :
            InstructionMappingVerify(TRI, RegBanks,
                                     Ret.value.PossibleMappings[k], MI)
              = Passes
  /\ (/\ Called
      /\ ~HasAborted(Ret.value)
      /\ Ret.value.ID # InvalidMappingID)
       => InstructionMappingVerify(TRI, RegBanks, Ret.value, MI) = Passes

\* C14: in every valid mapping that getInstrMappingImpl returns, an operand
\* that is not a register operand has an empty ValueMapping.
C14_NonRegisterOperandsEmpty ==
  (/\ Called
   /\ ~HasAborted(Ret.value)
   /\ Ret.value.ID # InvalidMappingID)
    => \A i \in OperandIdx(MI) :
         ~MI.Operands[i].isReg
           => Ret.value.OperandsMapping[i].BreakDown = <<>>

\* The fatal end of getInstrMapping.
TargetMustImplement == [abort |-> "The target must implement this"]

\* C15: getInstrMapping never returns an invalid mapping.  For a generic
\* opcode it ends in the fatal "The target must implement this"; for any
\* other opcode it returns what getInstrMappingImpl returns when that is
\* valid, and ends in the same fatal path when that is invalid.
C15_NeverReturnsInvalid ==
  Ret.kind = "getInstrMapping"
    => /\ ~HasAborted(Ret.value) => Ret.value.ID # InvalidMappingID
       /\ MI.Opcode = "G_ADD" => Ret.value = TargetMustImplement
       /\ MI.Opcode # "G_ADD"
            => LET D == getInstrMappingImpl(TRI, RegBanks, MI)
               IN  /\ (~HasAborted(D) /\ D.ID # InvalidMappingID)
                        => Ret.value = D
                   /\ IsInvalidMapping(D) => Ret.value = TargetMustImplement

C15_Witness ==
  /\ Ret.kind = "getInstrMapping"
  /\ MI.Opcode = "ADD"
  /\ \E i \in OperandIdx(MI) : Unresolved(MI.Operands[i])
  /\ \E i \in OperandIdx(MI) : Resolves(MI.Operands[i])
  /\ IsInvalidMapping(getInstrMappingImpl(TRI, RegBanks, MI))
  /\ Ret.value = TargetMustImplement

\* C16: the sequence getInstrPossibleMappings returns starts with the
\* result of getInstrMapping and goes on with the alternative mappings of
\* the target, in the order the target gave them; with the alternatives of
\* the base class, which are none, it has exactly one element.
C16_DefaultFirst ==
  (Ret.kind = "getInstrPossibleMappings" /\ ~HasAborted(Ret.value))
    => LET Returned == Ret.value.PossibleMappings
       IN  /\ Len(Returned) = 1 + Len(Ret.alt)
           /\ Returned[1] = getInstrMapping(TRI, RegBanks, MI)
           /\ \A k \in 1 .. Len(Ret.alt) : Returned[k + 1] = Ret.alt[k]
           /\ Ret.alt = <<>> => Len(Returned) = 1

C16_Witness ==
  /\ Ret.kind = "getInstrPossibleMappings"
  /\ ~HasAborted(Ret.value)
  /\ Len(Ret.value.PossibleMappings) = 3
  /\ Ret.value.PossibleMappings[1].ID = DefaultMappingID
  /\ Ret.value.PossibleMappings[2].ID = 2
  /\ Ret.value.PossibleMappings[3].ID = 1
  /\ \E i \in OperandIdx(MI) : HoldsRegister(MI.Operands[i])

\* The bits set in a mask, and the number of bits from its lowest to its
\* highest set bit.
SetBits(Mask) == {i \in 0 .. (Mask.BitWidth - 1) : BitIsSet(Mask.Value, i)}

SpannedBits(Mask) ==
  IF SetBits(Mask) = {} THEN 0
  ELSE LET lo == CHOOSE i \in SetBits(Mask) : \A j \in SetBits(Mask) : i <= j
           hi == CHOOSE i \in SetBits(Mask) : \A j \in SetBits(Mask) : j <= i
       IN  hi - lo + 1

\* The partial mapping names a bank that holds the bits its mask spans.
PartFits(PartMap) ==
  /\ PartMap.RegBank # NullBank
  /\ SpannedBits(PartMap.Mask) <= RegBanks[PartMap.RegBank].Size

\* C17: PartialMapping::verify fails exactly when the bank reference is
\* null or the mask spans, from its lowest to its highest set bit, more
\* bits than the Size of the bank; a mask with no bit set spans none.
C17_PartialMappingVerify ==
  Ret.kind = "PartialMapping::verify"
    => ((Ret.value # Passes) <=> ~PartFits(Arg.PartMap))

C17_Witness ==
  /\ Ret.kind = "PartialMapping::verify"
  /\ Ret.value = Passes
  /\ Arg.PartMap.RegBank # NullBank
  /\ SetBits(Arg.PartMap.Mask) # {}
  /\ 0 \notin SetBits(Arg.PartMap.Mask)
  /\ Arg.PartMap.Mask.BitWidth > RegBanks[Arg.PartMap.RegBank].Size
  /\ (Arg.PartMap.Mask.BitWidth - 1) \in SetBits(Arg.PartMap.Mask)

\* C18: ValueMapping::verify(W) passes exactly when the breakdown is not
\* empty, every mask is W bits wide, every partial mapping passes its own
\* verify, and every one of the W bits is set in some mask; it passes for
\* no breakdown that leaves a bit uncovered.
C18_ValueMappingVerify ==
  Ret.kind = "ValueMapping::verify"
    => LET bd == Arg.VM.BreakDown
           W == Arg.ExpectedBitWidth
       IN  (Ret.value = Passes)
             <=> /\ bd # <<>>
                 /\ \A k \in 1 .. Len(bd) : bd[k].Mask.BitWidth = W
                 /\ \A k \in 1 .. Len(bd) : PartFits(bd[k])
                 /\ \A i \in 0 .. (W - 1) :
                      \E k \in 1 .. Len(bd) : i \in SetBits(bd[k].Mask)

C18_Witness ==
  /\ Ret.kind = "ValueMapping::verify"
  /\ Ret.value = Passes
  /\ Len(Arg.VM.BreakDown) = 2
  /\ \A k \in 1 .. 2 :
       SetBits(Arg.VM.BreakDown[k].Mask)
         # 0 .. (Arg.ExpectedBitWidth - 1)
  /\ Arg.VM.BreakDown[1].RegBank # Arg.VM.BreakDown[2].RegBank

\* C19: InstructionMapping::verify passes exactly when the mapping has as
\* many operands as the instruction, the mapping of every operand that is
\* not a register is empty, and the mapping of every operand that holds a
\* real register passes ValueMapping::verify with the bit-size of that
\* register.
C19_InstructionMappingVerify ==
  Ret.kind = "InstructionMapping::verify"
    => ((Ret.value = Passes)
          <=> /\ Arg.Mapping.NumOperands = NumOperandsOf(MI)
              /\ \A i \in OperandIdx(MI) :
                   /\ ~MI.Operands[i].isReg
                        => Arg.Mapping.OperandsMapping[i].BreakDown = <<>>
                   /\ HoldsRegister(MI.Operands[i])
                        => ValueMappingVerify(
                             RegBanks, Arg.Mapping.OperandsMapping[i],
                             OwnWidth(TRI, MI.Operands[i])) = Passes)

C19_Witness ==
  /\ Ret.kind = "InstructionMapping::verify"
  /\ Ret.value = Passes
  /\ NumOperandsOf(MI) = 3
  /\ ~MI.Operands[1].isReg
  /\ HoldsRegister(MI.Operands[2])
  /\ MI.Operands[3].isReg /\ ~HoldsRegister(MI.Operands[3])
  /\ Arg.Mapping.OperandsMapping[3].BreakDown # <<>>

\* C20: no query changes the catalog or the ID, the Name, the Size or the
\* covered set of any bank, in whatever order and however often the queries
\* are issued once the banks are initialized.
C20_QueriesLeaveBanks ==
  [][/\ TRI' = TRI
     /\ \A b \in RegBankIDs :
          /\ RegBanks'[b].ID = RegBanks[b].ID
          /\ RegBanks'[b].Name = RegBanks[b].Name
          /\ RegBanks'[b].Size = RegBanks[b].Size
          /\ RegBanks'[b].ContainedRegClasses =
               RegBanks[b].ContainedRegClasses]_vars

C20_Witness ==
  /\ Ret.kind = "getRegBank"
  /\ Ret.value # NullBank
  /\ RegBanks = InitializedRegBanks(TRI)
  /\ \A b \in RegBankIDs : isValid(RegBanks[b]) /\ RegBanks[b].ID = b

\* The bank of the addRegBankCoverage call that a step belongs to.
CallBank == IF pc # "idle" THEN frame.ID ELSE frame'.ID

\* What a step leaves of the worklist (the pop of line 111 leaves all but
\* the top, every other step leaves all of it) and what it pushes.
KeptOfWorkList ==
  IF pc = "loop" THEN SubSeq(WorkList, 1, Len(WorkList) - 1) ELSE WorkList

PushedByStep ==
  SubSeq(WorkList', Len(KeptOfWorkList) + 1, Len(WorkList'))

\* C23: a step of addRegBankCoverage pushes only classes the bank did not
\* cover before the step, each once, and marks each covered; no class loses
\* its mark; hence a class is pushed at most once in a call and a class
\* covered by an earlier call is never pushed.  Every class on the worklist
\* is marked covered, and no class is on it twice.
C23_Step ==
  (pc # "idle" \/ pc' # "idle")
    => /\ Len(WorkList') >= Len(KeptOfWorkList)
       /\ SubSeq(WorkList', 1, Len(KeptOfWorkList)) = KeptOfWorkList
       /\ \A k \in 1 .. Len(PushedByStep) :
            /\ PushedByStep[k] \notin Covered(RegBanks[CallBank])
            /\ PushedByStep[k] \in Covered(RegBanks'[CallBank])
            /\ \A j \in 1 .. Len(PushedByStep) :
                 PushedByStep[j] = PushedByStep[k] => j = k
       /\ Covered(RegBanks[CallBank]) \subseteq Covered(RegBanks'[CallBank])

C23_OnWorkList ==
  pc # "idle"
    => /\ \A k \in 1 .. Len(WorkList) :
            WorkList[k] \in Covered(RegBanks[frame.ID])
       /\ \A j, k \in 1 .. Len(WorkList) : WorkList[j] = WorkList[k] => j = k

C23_PushedAtMostOnce == [][C23_Step]_vars /\ []C23_OnWorkList

C23_Witness ==
  /\ pc = "loop"
  /\ WorkList # <<>>
  /\ \A k \in 1 .. Len(WorkList) : WorkList[k] # frame.RCId
  /\ Covered(frame.entry) \cap SubClassesOf(TRI, frame.RCId) # {}
  /\ frame.RCId \notin Covered(frame.entry)

OnWorkList(c) == \E k \in 1 .. Len(WorkList) : WorkList[k] = c

\* C29 as stated: at every step, inside a call or between calls, each class
\* a bank covers either is still on the worklist of the call that builds the
\* bank or is no wider than the bank's Size.
C29_CoveredOrPending ==
  \A b \in RegBankIDs : \A c \in Covered(RegBanks[b]) :
    \/ pc # "idle" /\ frame.ID = b /\ OnWorkList(c)
    \/ BitWidth(TRI, c) <= RegBanks[b].Size

\* C29, amended: at every step each class a bank covers is still on the
\* worklist of the call that builds the bank, or is the class that call has
\* just popped and whose width it has not yet brought into Size, or is no
\* wider than the bank's Size.  Inside a call the first two cases do occur
\* (C29_Witness): a class is marked when it is pushed and Size is raised
\* only after it is popped, so a reader can see a bank that covers a class
\* wider than its Size.
C29_CoveredPendingOrPopped ==
  \A b \in RegBankIDs : \A c \in Covered(RegBanks[b]) :
    \/ pc # "idle" /\ frame.ID = b /\ OnWorkList(c)
    \/ pc = "examine" /\ frame.ID = b /\ frame.CurRC = c
    \/ BitWidth(TRI, c) <= RegBanks[b].Size

C29_Witness ==
  /\ pc = "examine"
  /\ RegBanks[frame.ID].Size > 0
  /\ frame.CurRC \in Covered(RegBanks[frame.ID])
  /\ BitWidth(TRI, frame.CurRC) > RegBanks[frame.ID].Size
  /\ ~OnWorkList(frame.CurRC)
  /\ \E c \in Covered(RegBanks[frame.ID]) :
       /\ BitWidth(TRI, c) > RegBanks[frame.ID].Size
       /\ OnWorkList(c)

BothOrdersDone == pc = "idle" /\ \A b \in OrderedBanks : CallsDone(b) = 2

\* C28: once a bank has been seeded with S1 then S2 and another with S2 then
\* S1, both cover the same classes, the union of the closure of S1 and the
\* closure of S2, and both have the same Size.
C28_OrderIndependent ==
  BothOrdersDone =>
    /\ Covered(RegBanks[0]) = Covered(RegBanks[1])
    /\ Covered(RegBanks[0]) =
         Closure(TRI, {Arg.S1}) \cup Closure(TRI, {Arg.S2})
    /\ RegBanks[0].Size = RegBanks[1].Size

C28_Witness ==
  /\ BothOrdersDone
  /\ Closure(TRI, {Arg.S1}) \ Closure(TRI, {Arg.S2}) # {}
  /\ Closure(TRI, {Arg.S2}) \ Closure(TRI, {Arg.S1}) # {}
  /\ Closure(TRI, {Arg.S1}) \cap Closure(TRI, {Arg.S2}) # {}
  /\ BitWidth(TRI, Arg.S1) # BitWidth(TRI, Arg.S2)

ReturnedValid ==
  /\ Called
  /\ ~HasAborted(Ret.value)
  /\ Ret.value.ID # InvalidMappingID

\* C24: in every valid mapping getInstrMappingImpl returns, on the complete
\* path and on the propagation path, each operand has at most one
\* PartialMapping and the mask of each PartialMapping has every bit of its
\* width set: no value is split over several banks.
C24_OnePartialMappingEach ==
  ReturnedValid
    => \A i \in OperandIdx(MI) :
         LET BreakDown == Ret.value.OperandsMapping[i].BreakDown
         IN  /\ Len(BreakDown) <= 1
             /\ \A k \in 1 .. Len(BreakDown) :
                  /\ BreakDown[k].Mask.Value
                       = Pow2(BreakDown[k].Mask.BitWidth) - 1
                  /\ BreakDown[k].Mask.BitWidth > 0

C24_Witness ==
  /\ ReturnedValid
  /\ MI.Opcode = "COPY"
  /\ NumOperandsOf(MI) = 3
  /\ Resolves(MI.Operands[1])
  /\ Unresolved(MI.Operands[2])
  /\ Resolves(MI.Operands[3])
  /\ \A i \in 1 .. 3 : Len(Ret.value.OperandsMapping[i].BreakDown) = 1
  /\ Ret.value.OperandsMapping[2].BreakDown[1].Mask
       = AllOnes(MaxRCSize * BitsPerByte)

\* The operands the loop of lines 250-283 reaches: all of them, or in a
\* copy-like instruction those before the point where the loop breaks.
Scanned(mi, i) ==
  mi.Opcode \notin {"COPY", "PHI"} \/ i < ScanStop(mi)

\* The bank lines 257-266 find for an operand that resolves one: the bank
\* known for the register, and only when there is none the bank of the
\* register-class constraint.
KnownElseConstraint(mo) ==
  IF KnownBank(mo) # NullBank THEN KnownBank(mo)
  ELSE getRegBankFromRegClass(mo.RegClassConstraint)

\* getRegBank gives no bank, and does not fail, for a virtual register that
\* has neither bank nor class.
NoBankForUnassigned ==
  Called
    => \A i \in OperandIdx(MI) :
         (/\ HoldsRegister(MI.Operands[i])
          /\ MI.Operands[i].Reg.kind = "virt"
          /\ MI.Operands[i].Reg.RegClassOrRegBank = <<"null">>)
           => getRegBank(MI.Operands[i].Reg) = NullBank

\* C25 as stated: in a valid mapping, each operand that holds a real register
\* and resolves a bank is in the bank known for its register, whatever its
\* register-class constraint says, and in the bank of the constraint only
\* when no bank is known; getRegBank gives no bank, and does not fail, for a
\* virtual register that has neither bank nor class.
C25_EachOperandKnownBankFirst ==
  /\ ReturnedValid
       => \A i \in OperandIdx(MI) :
            Resolves(MI.Operands[i])
              => /\ Len(Ret.value.OperandsMapping[i].BreakDown) = 1
                 /\ Ret.value.OperandsMapping[i].BreakDown[1].RegBank =
                      KnownElseConstraint(MI.Operands[i])
  /\ NoBankForUnassigned

\* C25, amended: the same for each operand the loop of lines 250-283
\* reaches, that is every operand of an instruction that is not copy-like
\* and, in a copy-like instruction, the operands before the point where the
\* loop breaks; the operands after that point are not looked up (C27).
C25_KnownBankBeforeConstraint ==
  /\ ReturnedValid
       => \A i \in OperandIdx(MI) :
            (Resolves(MI.Operands[i]) /\ Scanned(MI, i))
              => /\ Len(Ret.value.OperandsMapping[i].BreakDown) = 1
                 /\ Ret.value.OperandsMapping[i].BreakDown[1].RegBank =
                      KnownElseConstraint(MI.Operands[i])
  /\ NoBankForUnassigned

C25_Witness ==
  /\ ReturnedValid
  /\ MI.Opcode = "ADD"
  /\ NumOperandsOf(MI) = 3
  /\ MI.Operands[1].Reg.kind = "virt"
  /\ MI.Operands[1].Reg.RegClassOrRegBank[1] = "bank"
  /\ MI.Operands[1].RegClassConstraint # NoClass
  /\ getRegBankFromRegClass(MI.Operands[1].RegClassConstraint)
       # KnownBank(MI.Operands[1])
  /\ MI.Operands[2].Reg.kind = "virt"
  /\ MI.Operands[2].Reg.RegClassOrRegBank = <<"null">>
  /\ MI.Operands[2].RegClassConstraint # NoClass
  /\ MI.Operands[3].Reg.kind = "phys"
  /\ Ret.value.OperandsMapping[1].BreakDown[1].RegBank
       = KnownBank(MI.Operands[1])

ReturnedValidCopyLike == ReturnedValid /\ MI.Opcode \in {"COPY", "PHI"}

\* C27 as stated: in the mapping returned for a copy-like instruction, every
\* operand that resolves a bank on its own is in that bank over the width of
\* its own register, wherever it sits in the operand list.
C27_ResolvedKeepOwnBank ==
  ReturnedValidCopyLike
    => \A i \in OperandIdx(MI) :
         Resolves(MI.Operands[i])
           => Ret.value.OperandsMapping[i].BreakDown =
                WholeIn(OwnWidth(TRI, MI.Operands[i]), OwnBank(MI.Operands[i]))

\* C27, amended: an operand that resolves a bank on its own is in that bank
\* over its own width when the scan reaches it, that is when no unresolved
\* operand that follows a resolved one precedes it; a resolving operand after
\* that point is treated like an unresolved one and is given the bank and
\* the width of the last resolved operand before that point.
C27_ResolvedBeforeStopKeepOwnBank ==
  ReturnedValidCopyLike
    => \A i \in OperandIdx(MI) :
         Resolves(MI.Operands[i])
           => Ret.value.OperandsMapping[i].BreakDown =
                IF i < ScanStop(MI)
                  THEN WholeIn(OwnWidth(TRI, MI.Operands[i]),
                               OwnBank(MI.Operands[i]))
                  ELSE WholeIn(OwnWidth(TRI, MI.Operands[LastScanned(MI)]),
                               OwnBank(MI.Operands[LastScanned(MI)]))

C27_Witness ==
  /\ ReturnedValidCopyLike
  /\ MI.Opcode = "PHI"
  /\ NumOperandsOf(MI) = 3
  /\ Resolves(MI.Operands[1])
  /\ Unresolved(MI.Operands[2])
  /\ Resolves(MI.Operands[3])
  /\ OwnBank(MI.Operands[3]) # OwnBank(MI.Operands[1])
  /\ OwnWidth(TRI, MI.Operands[3]) = OwnWidth(TRI, MI.Operands[1])
  /\ Ret.value.OperandsMapping[3].BreakDown =
       WholeIn(OwnWidth(TRI, MI.Operands[1]), OwnBank(MI.Operands[1]))

\* Some bit is set in two masks of the breakdown.
MasksOverlap(bd) ==
  \E j, k \in 1 .. Len(bd) :
    j # k /\ SetBits(bd[j].Mask) \cap SetBits(bd[k].Mask) # {}

\* The masks have one width and every bit of that width is set in some mask.
SameWidthAndCover(bd) ==
  /\ \A j, k \in 1 .. Len(bd) : bd[j].Mask.BitWidth = bd[k].Mask.BitWidth
  /\ \A k \in 1 .. Len(bd) :
       \A i \in 0 .. (bd[k].Mask.BitWidth - 1) :
         \E j \in 1 .. Len(bd) : i \in SetBits(bd[j].Mask)

\* C26 as stated: ValueMapping::verify passes for every breakdown whose
\* masks overlap, have one width and together cover every bit.
C26_OverlapAccepted ==
  (/\ Ret.kind = "ValueMapping::verify"
   /\ MasksOverlap(Arg.VM.BreakDown)
   /\ SameWidthAndCover(Arg.VM.BreakDown))
    => Ret.value = Passes

\* C26, amended: for a breakdown whose masks overlap, ValueMapping::verify(W)
\* passes exactly when the masks have one width, that width is W, they
\* together cover every bit, and every partial mapping passes its own
\* verify; a bit covered twice is never what makes verify fail.
C26_OverlapNeverRejects ==
  (/\ Ret.kind = "ValueMapping::verify"
   /\ MasksOverlap(Arg.VM.BreakDown))
    => ((Ret.value = Passes)
          <=> /\ SameWidthAndCover(Arg.VM.BreakDown)
              /\ \A k \in 1 .. Len(Arg.VM.BreakDown) :
                   /\ Arg.VM.BreakDown[k].Mask.BitWidth = Arg.ExpectedBitWidth
                   /\ PartFits(Arg.VM.BreakDown[k]))

C26_Witness ==
  /\ Ret.kind = "ValueMapping::verify"
  /\ Ret.value = Passes
  /\ Len(Arg.VM.BreakDown) = 2
  /\ MasksOverlap(Arg.VM.BreakDown)
  /\ Arg.VM.BreakDown[1].Mask # Arg.VM.BreakDown[2].Mask
  /\ Arg.VM.BreakDown[1].RegBank # Arg.VM.BreakDown[2].RegBank
  /\ Arg.ExpectedBitWidth = MaxRCSize * BitsPerByte

\* C30: getSymbolValue gives 0 for a symbol flagged undefined, also when it
\* is flagged common; the common-symbol size for a symbol flagged common and
\* not undefined; the value of the format for every other symbol.
C30_SymbolValue ==
  Ret.kind = "getSymbolValue"
    => Ret.value =
         CASE "SF_Undefined" \in Arg.Ref.Flags -> 0
           [] "SF_Undefined" \notin Arg.Ref.Flags
                /\ "SF_Common" \in Arg.Ref.Flags -> Arg.Ref.CommonSymbolSize
           [] OTHER -> Arg.Ref.SymbolValueImpl

C30_Witness ==
  /\ Ret.kind = "getSymbolValue"
  /\ {"SF_Undefined", "SF_Common"} \subseteq Arg.Ref.Flags
  /\ Arg.Ref.CommonSymbolSize > 0
  /\ Arg.Ref.SymbolValueImpl > 0
  /\ Arg.Ref.SymbolValueImpl # Arg.Ref.CommonSymbolSize
  /\ Ret.value = 0

\* The kind createObjectFile decides on: the hint, or the magic of the
\* buffer when the hint is "unknown".
DecidedKind == IF Arg.Type = "unknown" THEN Arg.Object.Magic ELSE Arg.Type

\* The reader a kind belongs to, "none" for the kinds that are refused.
ReaderOfKind(k) ==
  CASE k \in {"elf", "elf_relocatable", "elf_executable",
              "elf_shared_object", "elf_core"} -> "ELF"
    [] k \in {"coff_object", "coff_import_library", "pecoff_executable"}
         -> "COFF"
    [] k \in {"unknown", "bitcode", "archive", "macho_universal_binary",
              "windows_resource"} -> "none"
    [] OTHER -> "MachO"

\* C22: createObjectFile(buffer, type) decides on the hint, and on the magic
\* of the buffer only when the hint is "unknown"; it returns
\* invalid_file_type exactly for the kinds unknown, bitcode, archive,
\* Mach-O universal binary and Windows resource, and for every other kind
\* what the reader of the kind's format returns on the buffer: its object,
\* or its error.
C22_Dispatch ==
  Ret.kind = "createObjectFile"
    => LET Reader == ReaderOfKind(DecidedKind)
       IN  /\ ~HasAborted(Ret.value)
           /\ (Ret.value = [kind |-> "error", code |-> "invalid_file_type"])
                <=> Reader = "none"
           /\ Reader # "none"
                => Ret.value =
                     IF Reader \in Arg.Object.Parses
                       THEN [kind |-> "object", Format |-> Reader,
                             Data |-> Arg.Object]
                       ELSE [kind |-> "error", code |-> "parse_failed"]

C22_Witness ==
  /\ Ret.kind = "createObjectFile"
  /\ Arg.Type = "coff_object"
  /\ Arg.Object.Magic = "elf_relocatable"
  /\ Arg.Object.Parses = {"ELF", "COFF"}
  /\ Ret.value.kind = "object"
  /\ Ret.value.Format = "COFF"

\* C21: createObjectFile(path) returns the error of the read when the file
\* cannot be read, the error of the creation when no object can be created
\* from the buffer, and otherwise the pair of the created object and its
\* buffer.
C21_ErrorOrOwningPair ==
  Ret.kind = "createObjectFilePath"
    => IF FileIsError(Arg.File)
         THEN Ret.value = [kind |-> "error", code |-> Arg.File.error]
       ELSE IF ReaderOfKind(Arg.File.buffer.Magic) = "none"
         THEN Ret.value = [kind |-> "error", code |-> "invalid_file_type"]
       ELSE IF ReaderOfKind(Arg.File.buffer.Magic)
                 \notin Arg.File.buffer.Parses
         THEN Ret.value = [kind |-> "error", code |-> "parse_failed"]
       ELSE Ret.value =
              [kind |-> "OwningBinary",
               Obj |-> [kind |-> "object",
                        Format |-> ReaderOfKind(Arg.File.buffer.Magic),
                        Data |-> Arg.File.buffer],
               Buffer |-> Arg.File.buffer]

====
